---- MODULE Spec2Model ----
(***************************************************************************)
(* Model of the skeletal-animation binary codec of the repository and of   *)
(* the viewer handlers that drive it.                                      *)
(*                                                                         *)
(*   bytes        a buffer is a sequence over 0..255; the byte at JS       *)
(*                offset i is element i+1                                  *)
(*   positions    a position component is a number representable in       *)
(*                binary32, written as its binary32 fields [s, e, m]       *)
(*                (what float32ToFloat16 reads through its Int32Array)     *)
(*   rotations    a rotation component x is written [neg, sq] with         *)
(*                sq = (x / h)^2, h = maxValue / 65534 (half a             *)
(*                quantisation step); 1.0 is sq = 2 * 32767^2.  The        *)
(*                arithmetic is the exact real arithmetic of the code's    *)
(*                formulas with shift taken as maxValue / 2                *)
(***************************************************************************)
EXTENDS Integers, Sequences, FiniteSets, TLC

\* null / undefined of the code.
Null == [null |-> TRUE]

\* null in a field that otherwise holds an ArrayBuffer (bytes are 0..255).
NullBuffer == << -1 >>

(***************************************************************************)
(* Bounds of the model.                                                    *)
(***************************************************************************)
MaxPrefix == 2
MaxFrames == 2
MaxBones == 2
MaxTrail == 2
MaxImportFrames == 5

(***************************************************************************)
(* Sequence and byte helpers.                                              *)
(***************************************************************************)
Min(a, b) == IF a < b THEN a ELSE b
Max(a, b) == IF a > b THEN a ELSE b

RECURSIVE Pow2(_)
Pow2(n) == IF n <= 0 THEN 1 ELSE 2 * Pow2(n - 1)

RECURSIVE Flatten(_)
Flatten(ss) == IF ss = <<>> THEN <<>> ELSE Head(ss) \o Flatten(Tail(ss))

Repeat(s, n) == Flatten([i \in 1..n |-> s])

Zeros(n) == [i \in 1..n |-> 0]

\* ArrayBuffer.prototype.slice(begin, end): negative indices count from the
\* end, both are clamped to [0, byteLength].
SliceIndex(i, len) == IF i < 0 THEN Max(len + i, 0) ELSE Min(i, len)
Slice(buf, begin, end) ==
    LET b == SliceIndex(begin, Len(buf))
        e == SliceIndex(end, Len(buf))
    IN  IF e <= b THEN <<>> ELSE SubSeq(buf, b + 1, e)
SliceFrom(buf, begin) == Slice(buf, begin, Len(buf))

\* DataView accessors throw a RangeError unless [off, off + n) lies in the view.
InView(buf, off, n) == off >= 0 /\ off + n <= Len(buf)

getUint16(buf, off) == buf[off + 1] + 256 * buf[off + 2]
getInt16(buf, off) ==
    LET u == getUint16(buf, off) IN IF u >= 32768 THEN u - 65536 ELSE u
getInt32(buf, off) ==
    LET b3 == buf[off + 4]
        hi == IF b3 >= 128 THEN b3 - 256 ELSE b3
    IN  buf[off + 1] + 256 * buf[off + 2] + 65536 * buf[off + 3] + 16777216 * hi

Uint16Bytes(v) == << v % 256, (v \div 256) % 256 >>
Int16Bytes(v) == Uint16Bytes(IF v < 0 THEN v + 65536 ELSE v)
\* setInt32(off, v, true): the four little-endian bytes of v as a 32-bit
\* two's-complement integer.
Int32Bytes(v) ==
    LET lo == v % 16777216
        hi == (v - lo) \div 16777216
    IN  << lo % 256, (lo \div 256) % 256, lo \div 65536,
           IF hi < 0 THEN hi + 256 ELSE hi >>

\* TypedArray.prototype.set(src, off) / DataView setters on a buffer.
CanWrite(buf, off, n) == off >= 0 /\ off + n <= Len(buf)
WriteAt(buf, off, bytes) ==
    [i \in 1..Len(buf) |->
        IF i > off /\ i <= off + Len(bytes) THEN bytes[i - off] ELSE buf[i]]

\* EXPECTED_HEADER = 457546134634734n, as getBigUint64(i, true) reads it.
MagicBytes == << 238, 192, 210, 194, 34, 160, 1, 0 >>
HasMagicAt(buf, off) ==
    InView(buf, off, 8) /\ SubSeq(buf, off + 1, off + 8) = MagicBytes

(***************************************************************************)
(* Half-float codec.                                                       *)
(***************************************************************************)
F32(s, e, m) == [s |-> s, e |-> e, m |-> m]
F32Zero == F32(0, 0, 0)
F32NaN == F32(0, 255, 4194304)

RECURSIVE Log2Floor(_)
Log2Floor(n) == IF n <= 1 THEN 0 ELSE 1 + Log2Floor(n \div 2)

halfToFloat(h) ==
    LET s == (h \div 32768) % 2
        e == (h \div 1024) % 32
        f == h % 1024
    IN  IF e = 0
        THEN IF f = 0 THEN F32(s, 0, 0)
             ELSE LET k == Log2Floor(f)
                  IN  F32(s, k + 103, (f - Pow2(k)) * Pow2(23 - k))
        ELSE IF e = 31
             THEN IF f # 0 THEN F32NaN ELSE F32(s, 255, 0)
             ELSE F32(s, e + 112, f * 8192)

\* "floatView[0] = val": a JS number is a binary64; the store rounds it to
\* the nearest binary32, ties to even.  The number is written with the
\* binary32 fields of the value at or below its magnitude and, in low, what
\* lies beyond the 23 mantissa bits: 0 nothing, 1 less than half a unit in
\* the last place, 2 exactly half, 3 more than half.
Number(s, e, m, low) == [s |-> s, e |-> e, m |-> m, low |-> low]
ToFloat32(x) ==
    IF x.e = 255 \/ x.low < 2 \/ (x.low = 2 /\ x.m % 2 = 0)
    THEN F32(x.s, x.e, x.m)
    ELSE IF x.m + 1 = Pow2(23) THEN F32(x.s, x.e + 1, 0)
    ELSE F32(x.s, x.e, x.m + 1)

float32ToFloat16(val) ==
    LET bits == val.s * 32768
        m == val.m \div 4096
        e == val.e
    IN  IF e < 103 THEN bits
        ELSE IF e > 142
             THEN IF e # 255 THEN bits + 31744
                  ELSE bits + 31744 + (IF m # 0 THEN 1 ELSE 0)
        ELSE IF e < 113
             THEN LET mm == m + 2048
                  IN  bits + ((mm \div Pow2(114 - e)) + ((mm \div Pow2(113 - e)) % 2))
        ELSE bits + (e - 112) * 1024 + (m \div 2)

(***************************************************************************)
(* Exact arithmetic on naturals beyond 32 bits, as little-endian limbs.    *)
(* The code computes in binary64; the comparisons below are those of the   *)
(* real values.                                                            *)
(***************************************************************************)
LimbBase == 100 * 100

Limb(x, i) == IF i <= Len(x) THEN x[i] ELSE 0

BigOf(n) ==
    << n % LimbBase, (n \div LimbBase) % LimbBase, n \div (LimbBase * LimbBase) >>

RECURSIVE BigCarry(_, _, _, _)
BigCarry(cols, n, i, carry) ==
    IF i > n THEN <<>>
    ELSE LET v == Limb(cols, i) + carry
         IN  << v % LimbBase >> \o BigCarry(cols, n, i + 1, v \div LimbBase)

BigAdd(x, y) ==
    LET n == Max(Len(x), Len(y))
    IN  BigCarry([i \in 1..n |-> Limb(x, i) + Limb(y, i)], n + 1, 1, 0)

RECURSIVE BigColumn(_, _, _, _)
BigColumn(x, y, k, i) ==
    IF i > Len(x) THEN 0
    ELSE (IF k + 1 - i >= 1 /\ k + 1 - i <= Len(y) THEN x[i] * y[k + 1 - i] ELSE 0)
         + BigColumn(x, y, k, i + 1)

BigMul(x, y) ==
    LET n == Len(x) + Len(y)
    IN  BigCarry([k \in 1..n |-> BigColumn(x, y, k, 1)], n, 1, 0)

RECURSIVE BigLeqFrom(_, _, _)
BigLeqFrom(x, y, i) ==
    IF i = 0 THEN TRUE
    ELSE IF Limb(x, i) < Limb(y, i) THEN TRUE
    ELSE IF Limb(x, i) > Limb(y, i) THEN FALSE
    ELSE BigLeqFrom(x, y, i - 1)

BigLeq(x, y) == BigLeqFrom(x, y, Max(Len(x), Len(y)))

(***************************************************************************)
(* Quaternion codec ("smallest three").                                    *)
(***************************************************************************)
\* 0x7FFF: scale = 1.0 / 32767.0 and the clamp of the quantised fields.
QuantMax == 32767
\* sq of the number 1.0: (1 / h)^2 with h = maxValue / 65534, maxValue^2 = 2.
One == 2 * QuantMax * QuantMax

Real(neg, sq) == [neg |-> neg, sq |-> sq]
RZero == Real(FALSE, 0)
ROne == Real(FALSE, One)
IsNegative(x) == x.neg /\ x.sq > 0
IdentityRotation == << RZero, RZero, RZero, ROne >>

\* raw * scale * maxValue - shift, in half steps: 2 * raw - 32767.
Dequantize(raw) ==
    LET n == 2 * raw - QuantMax IN Real(n < 0, n * n)

\* parseCompressedQuaternion ignoring the index of the omitted component: the
\* reconstructed one always comes last.
parseQuaternionLast(v0, v1, v2) ==
    LET signBit == (v0 \div 32768) % 2
        a == Dequantize((v1 \div 16384) + 4 * (v0 % 8192))
        b == Dequantize((v2 \div 32768) + 2 * (v1 % 16384))
        c == Dequantize(v2 % 32768)
        dSquared == ((One - a.sq) - b.sq) - c.sq
    IN  << a, b, c, Real(signBit = 1, IF dSquared > 0 THEN dSquared ELSE 0) >>

\* "missing = (v0 >> 13) & 3", "signBit = (v0 >> 15) & 1" and the three
\* 15-bit fields "(v1 >> 14) + 4 * (v0 & 0x1fff)", "(v2 >> 15) + 2 * (v1 &
\* 0x3fff)", "v2 & 0x7fff".
Fields(v0, v1, v2) ==
    [signBit |-> (v0 \div 32768) % 2,
     maxIdx |-> (v0 \div 8192) % 4,
     aBits |-> (v1 \div 16384) + 4 * (v0 % 8192),
     bBits |-> (v2 \div 32768) + 2 * (v1 % 16384),
     cBits |-> v2 % 32768]

Reconstruct(f) ==
    LET a == Dequantize(f.aBits)
        b == Dequantize(f.bBits)
        c == Dequantize(f.cBits)
        dSquared == ((One - a.sq) - b.sq) - c.sq
        d == Real(f.signBit = 1, IF dSquared > 0 THEN dSquared ELSE 0)
    IN  CASE f.maxIdx = 0 -> << d, a, b, c >>
          [] f.maxIdx = 1 -> << a, d, b, c >>
          [] f.maxIdx = 2 -> << a, b, d, c >>
          [] OTHER        -> << a, b, c, d >>

parseCompressedQuaternion(v0, v1, v2) == Reconstruct(Fields(v0, v1, v2))

\* The largest m in lo..hi-1 with (2m)^2 * lenSq <= sq * One, that is
\* floor(|x / len| / (scale * maxValue)), given that lo satisfies it and hi
\* does not.  |x / len| <= 1 keeps (2m)^2 <= One, within 31 bits.
RootMax == 23171
RECURSIVE FloorSteps(_, _, _, _)
FloorSteps(lo, hi, lenSq, target) ==
    IF hi - lo <= 1 THEN lo
    ELSE LET mid == (lo + hi) \div 2
         IN  IF BigLeq(BigMul(BigOf(4 * mid * mid), lenSq), target)
             THEN FloorSteps(mid, hi, lenSq, target)
             ELSE FloorSteps(lo, mid, lenSq, target)

clamp(v) == Max(0, Min(v, QuantMax))

\* The same floor for a unit quaternion (lenSq = One): (2m)^2 <= sq.
RECURSIVE FloorStepsUnit(_, _, _)
FloorStepsUnit(lo, hi, sq) ==
    IF hi - lo <= 1 THEN lo
    ELSE LET mid == (lo + hi) \div 2
         IN  IF 4 * mid * mid <= sq THEN FloorStepsUnit(mid, hi, sq)
             ELSE FloorStepsUnit(lo, mid, sq)

\* clamp(Math.round((x / len + shift) * factor)): shift * factor is 16383.5
\* and Math.round(y) is floor(y + 0.5).
Rounded(x, m, exact) ==
    LET mid == (QuantMax + 1) \div 2
    IN  clamp(IF IsNegative(x) THEN mid - (IF exact THEN m ELSE m + 1) ELSE mid + m)

QuantizeUnit(x, m) == Rounded(x, m, x.sq <= 4 * m * m)

QuantizeScaled(x, lenSq, target, m) ==
    Rounded(x, m, BigLeq(target, BigMul(BigOf(4 * m * m), lenSq)))

QuantizeBy(x, lenSq, target) ==
    QuantizeScaled(x, lenSq, target, FloorSteps(0, RootMax, lenSq, target))

Quantize(x, lenSq) ==
    IF BigLeq(lenSq, BigOf(One)) /\ BigLeq(BigOf(One), lenSq)
    THEN QuantizeUnit(x, FloorStepsUnit(0, RootMax, x.sq))
    ELSE QuantizeBy(x, lenSq, BigMul(BigOf(x.sq), BigOf(One)))

\* MaxIndex with ">=" in place of ">": the last of the components that tie.
MaxIndexLast(arr) ==
    CHOOSE i \in 1..4 :
        /\ \A j \in 1..4 : arr[j].sq <= arr[i].sq
        /\ \A j \in (i + 1)..4 : arr[j].sq < arr[i].sq

\* The loop "if (Math.abs(arr[i]) > maxVal)": the first index of the largest
\* magnitude.
MaxIndex(arr) ==
    CHOOSE i \in 1..4 :
        /\ \A j \in 1..4 : arr[j].sq <= arr[i].sq
        /\ \A j \in 1..(i - 1) : arr[j].sq < arr[i].sq

Remaining(arr, maxIdx) ==
    CASE maxIdx = 1 -> << arr[2], arr[3], arr[4] >>
      [] maxIdx = 2 -> << arr[1], arr[3], arr[4] >>
      [] maxIdx = 3 -> << arr[1], arr[2], arr[4] >>
      [] OTHER      -> << arr[1], arr[2], arr[3] >>

\* PackWords with the index of the omitted component one bit lower, where
\* it overlaps the top bit of aBits >> 2.
PackWordsOverlapping(signBit, maxIdx, aBits, bBits, cBits) ==
    << signBit * 32768 + maxIdx * 4096 + (aBits \div 4),
       (aBits % 4) * 16384 + (bBits \div 2),
       (bBits % 2) * 32768 + cBits >>

\* v0 = (signBit << 15) | (maxIdx << 13) | (aBits >> 2), v1, v2.
PackWords(signBit, maxIdx, aBits, bBits, cBits) ==
    << signBit * 32768 + maxIdx * 8192 + (aBits \div 4),
       (aBits % 4) * 16384 + (bBits \div 2),
       (bBits % 2) * 32768 + cBits >>

PackRemaining(signBit, maxIdx, abc, lenSq) ==
    PackWords(signBit, maxIdx, Quantize(abc[1], lenSq), Quantize(abc[2], lenSq),
              Quantize(abc[3], lenSq))

PackLargest(arr, maxIdx, lenSq) ==
    PackRemaining(IF IsNegative(arr[maxIdx]) THEN 1 ELSE 0, maxIdx - 1,
                  Remaining(arr, maxIdx), lenSq)

\* "if (len === 0) { q0=0; q1=0; q2=0; q3=1; len=1; }", then the division
\* by len, carried as lenSq.
Normalized(arr, sum) ==
    IF BigLeq(sum, BigOf(0))
    THEN PackLargest(IdentityRotation, MaxIndex(IdentityRotation), BigOf(One))
    ELSE PackLargest(arr, MaxIndex(arr), sum)

compressQuaternion(q0, q1, q2, q3) ==
    Normalized(<< q0, q1, q2, q3 >>,
               BigAdd(BigAdd(BigOf(q0.sq), BigOf(q1.sq)),
                      BigAdd(BigOf(q2.sq), BigOf(q3.sq))))

(***************************************************************************)
(* Frame body codec: one 12-byte record per (frame, bone slot).            *)
(***************************************************************************)
RecordSize == 12

BoneEntry(id, position, rotation) ==
    [boneId |-> id, position |-> position, rotation |-> rotation]

IdentityPose == [position |-> << F32Zero, F32Zero, F32Zero >>,
                 rotation |-> IdentityRotation]

DecodeRecord(buf, off, id) ==
    BoneEntry(id,
              << halfToFloat(getUint16(buf, off)),
                 halfToFloat(getUint16(buf, off + 2)),
                 halfToFloat(getUint16(buf, off + 4)) >>,
              parseCompressedQuaternion(getUint16(buf, off + 6),
                                        getUint16(buf, off + 8),
                                        getUint16(buf, off + 10)))

PositionBytes(position) ==
    Uint16Bytes(float32ToFloat16(position[1]))
    \o Uint16Bytes(float32ToFloat16(position[2]))
    \o Uint16Bytes(float32ToFloat16(position[3]))

PackedBytes(packed) ==
    Uint16Bytes(packed[1]) \o Uint16Bytes(packed[2]) \o Uint16Bytes(packed[3])

RotationBytes(rotation) ==
    PackedBytes(compressQuaternion(rotation[1], rotation[2], rotation[3],
                                   rotation[4]))

\* EncodeRecord without its last write: the third rotation word is missing.
EncodeRecordShort(boneData) ==
    PositionBytes(boneData.position)
    \o SubSeq(RotationBytes(boneData.rotation), 1, 4)

EncodeRecord(boneData) ==
    PositionBytes(boneData.position) \o RotationBytes(boneData.rotation)

\* LookupBone falling back to the frame's first entry instead of the identity
\* pose.
LookupBoneOrFirst(bones, id) ==
    LET hits == {i \in 1..Len(bones) : bones[i].boneId = id}
    IN  IF hits # {} THEN bones[CHOOSE i \in hits : \A j \in hits : j <= i]
        ELSE IF Len(bones) > 0 THEN bones[1]
        ELSE IdentityPose

\* boneMap[b.boneId] = b for every entry in order, then boneMap[id] || identity:
\* the last entry with that id, the identity pose when there is none.
LookupBone(bones, id) ==
    LET hits == {i \in 1..Len(bones) : bones[i].boneId = id}
    IN  IF hits = {} THEN IdentityPose
        ELSE bones[CHOOSE i \in hits : \A j \in hits : j <= i]

\* LookupSlot by position: slot b takes the b-th entry of the frame.
LookupSlotByPosition(bones, boneIds, b) ==
    IF b <= Len(bones) THEN bones[b] ELSE IdentityPose

\* this.boneIds[b] is undefined beyond the retained table, and
\* boneMap[undefined] is then undefined too: the identity pose.
LookupSlot(bones, boneIds, b) ==
    IF b <= Len(boneIds) THEN LookupBone(bones, boneIds[b]) ELSE IdentityPose

\* The scan-limited parser keeps rotations as [X, Y, Z, W] in memory:
\* "rotation: [q[1], q[2], q[3], q[0]]" and
\* "compressQuaternion(rot[3], rot[0], rot[1], rot[2])".
ToApp(q) == << q[2], q[3], q[4], q[1] >>
FromApp(rot) == << rot[4], rot[1], rot[2], rot[3] >>

EncodeSlot(boneData, swizzle) ==
    EncodeRecord(IF swizzle THEN [boneData EXCEPT !.rotation = FromApp(@)]
                 ELSE boneData)

EncodeFrame(frame, boneIds, bonesCount, swizzle) ==
    Flatten([b \in 1..Max(bonesCount, 0) |->
                EncodeSlot(LookupSlot(frame.bones, boneIds, b), swizzle)])

EncodeBody(frames, framesCount, boneIds, bonesCount, swizzle) ==
    Flatten([f \in 1..Max(framesCount, 0) |->
                EncodeFrame(frames[f], boneIds, bonesCount, swizzle)])

DecodeSlot(buf, off, id, swizzle) ==
    IF swizzle THEN [DecodeRecord(buf, off, id) EXCEPT !.rotation = ToApp(@)]
    ELSE DecodeRecord(buf, off, id)

DecodeFrames(buf, off, framesCount, bonesCount, boneIds, swizzle) ==
    [f \in 1..Max(framesCount, 0) |->
        [bones |-> [b \in 1..Max(bonesCount, 0) |->
            DecodeSlot(buf,
                       off + ((f - 1) * bonesCount + (b - 1)) * RecordSize,
                       boneIds[b], swizzle)]]]

AnimationData(frames, framesCount, bonesCount, boneIds, trailingData) ==
    [frames |-> frames, framesCount |-> framesCount, bonesCount |-> bonesCount,
     boneIds |-> boneIds, trailingData |-> trailingData]

(***************************************************************************)
(* AnimationParser: the retained state and parse / repack.                 *)
(***************************************************************************)
NewParser ==
    [originalFileBuffer |-> NullBuffer, originalHeaderBuffer |-> NullBuffer,
     headerStart |-> 0, headerEnd |-> 0,
     animationDataStart |-> 0, animationDataEnd |-> 0,
     boneIds |-> <<>>, bonesCount |-> 0, origFramesCount |-> 0, frameSize |-> 0]

ParseError == "Failed to parse binary file"
\* ParseFailed swallowing the error: an empty animation is returned.
ParseEmpty(p, cause) ==
    [ok |-> TRUE, parser |-> p, data |-> [frames |-> <<>>, framesCount |-> 0],
     error |-> "", cause |-> cause]

ParseFailed(p, cause) ==
    [ok |-> FALSE, parser |-> p, data |-> Null, error |-> ParseError, cause |-> cause]
ParseDone(p, data) ==
    [ok |-> TRUE, parser |-> p, data |-> data, error |-> "", cause |-> ""]

\* for (i = 0; i < byteLength - 8; i++) if (getBigUint64(i) === EXPECTED_HEADER)
ScanHeader(buf, limit) ==
    LET hits == {i \in 0..(limit - 1) : HasMagicAt(buf, i)}
    IN  IF hits = {} THEN -1 ELSE CHOOSE i \in hits : \A j \in hits : i <= j

\* The scan, then the explicit retry of offset 0, whose read throws on a
\* buffer shorter than 8 bytes.
FindHeader(buf) ==
    LET found == ScanHeader(buf, Len(buf) - 8)
    IN  IF found # -1 THEN [at |-> found, cause |-> ""]
        ELSE IF ~InView(buf, 0, 8) THEN [at |-> -1, cause |-> "RangeError"]
        ELSE IF HasMagicAt(buf, 0) THEN [at |-> 0, cause |-> ""]
        ELSE [at |-> -1, cause |-> "Invalid file signature"]

\* How many bone ids the loop pushes before a read leaves the buffer.
ReadableIds(buf, off, bonesCount) ==
    Min(Max(bonesCount, 0), (Len(buf) - off) \div 2)

ReadBoneIds(buf, off, n) == [i \in 1..n |-> getInt16(buf, off + 2 * (i - 1))]

parse(p, buf) ==
    LET h == FindHeader(buf)
        p1 == [p EXCEPT !.originalFileBuffer = buf, !.headerStart = h.at]
    IN  IF h.at = -1 THEN ParseFailed(p1, h.cause)
        ELSE IF ~InView(buf, h.at + 8, 2) THEN ParseFailed(p1, "RangeError")
        ELSE
        LET arrayCount == getInt16(buf, h.at + 8)
            framesAt == h.at + 8 + 2 + arrayCount * 8
        IN  IF ~InView(buf, framesAt, 4) THEN ParseFailed(p1, "RangeError")
            ELSE
            LET framesCount == getInt32(buf, framesAt)
                p2 == [p1 EXCEPT !.origFramesCount = framesCount]
            IN  IF ~InView(buf, framesAt + 4, 4) THEN ParseFailed(p2, "RangeError")
                ELSE
                LET bonesCount == getInt32(buf, framesAt + 4)
                    idsAt == framesAt + 8
                    nIds == ReadableIds(buf, idsAt, bonesCount)
                    boneIds == ReadBoneIds(buf, idsAt, nIds)
                    p3 == [p2 EXCEPT !.bonesCount = bonesCount,
                                     !.frameSize = bonesCount * RecordSize,
                                     !.boneIds = boneIds]
                IN  IF nIds < bonesCount THEN ParseFailed(p3, "RangeError")
                    ELSE
                    LET headerEnd == idsAt + 2 * nIds
                        dataEnd == headerEnd + framesCount * (bonesCount * RecordSize)
                        p4 == [p3 EXCEPT !.headerEnd = headerEnd,
                                         !.animationDataStart = headerEnd,
                                         !.animationDataEnd = dataEnd,
                                         !.originalHeaderBuffer = Slice(buf, 0, headerEnd)]
                        trailingData == SliceFrom(buf, dataEnd)
                        reads == framesCount > 0 /\ bonesCount > 0
                    IN  IF reads /\ ~InView(buf, headerEnd, dataEnd - headerEnd)
                        THEN ParseFailed(p4, "RangeError")
                        ELSE ParseDone(p4,
                                 AnimationData(
                                     DecodeFrames(buf, headerEnd, framesCount,
                                                  bonesCount, boneIds, FALSE),
                                     framesCount, bonesCount, boneIds, trailingData))

MissingBase == "Missing Base File header or Animation Data"

RepackFailed(error) ==
    [status |-> error, out |-> <<>>, footerAt |-> 0, footer |-> <<>>]
RepackDone(out, footerAt, footer) ==
    [status |-> "ok", out |-> out, footerAt |-> footerAt, footer |-> footer]

\* "animationData.trailingData && animationData.trailingData.byteLength > 0"
HasTrailingData(animationData) ==
    /\ "trailingData" \in DOMAIN animationData
    /\ animationData.trailingData # NullBuffer
    /\ Len(animationData.trailingData) > 0

\* FooterBuffer without the fallback to the original buffer.
FooterOrEmpty(p, animationData) ==
    IF HasTrailingData(animationData) THEN animationData.trailingData ELSE <<>>

\* The footer of repack: the caller's trailing data, else the bytes of the
\* original buffer after the original animation body.
FooterBuffer(p, animationData) ==
    IF HasTrailingData(animationData) THEN animationData.trailingData
    ELSE SliceFrom(p.originalFileBuffer, p.animationDataEnd)

\* The body loop: "TypeError" when animationData.frames[f] is undefined,
\* "RangeError" when a setUint16 leaves the buffer, else "ok".
BodyStatus(frames, framesCount, bonesCount, bodyStart, totalSize) ==
    LET perFrame == Max(bonesCount, 0) * RecordSize
        fits == IF perFrame = 0 THEN framesCount
                ELSE IF bodyStart < 0 THEN 0
                ELSE IF totalSize < bodyStart THEN 0
                ELSE (totalSize - bodyStart) \div perFrame
    IN  IF framesCount <= 0 THEN "ok"
        ELSE IF Len(frames) < framesCount /\ Len(frames) <= fits THEN "TypeError"
        ELSE IF fits < framesCount THEN "RangeError"
        ELSE "ok"

\* "finalBuffer.set(footerBuffer, writePtr)" when the footer is not empty.
WriteFooter(buf, writePtr, footerBuffer) ==
    IF Len(footerBuffer) > 0 /\ ~CanWrite(buf, writePtr, Len(footerBuffer))
    THEN RepackFailed("RangeError")
    ELSE RepackDone(WriteAt(buf, writePtr, footerBuffer), writePtr, footerBuffer)

\* The records of the body loop written at writePtr, then the footer.
WriteBody(buf, writePtr, bodyBytes, footerBuffer) ==
    WriteFooter(WriteAt(buf, writePtr, bodyBytes), writePtr + Len(bodyBytes),
                footerBuffer)

repack(p, animationData) ==
    IF animationData = Null \/ p.originalFileBuffer = NullBuffer
    THEN RepackFailed(MissingBase)
    ELSE
    LET orig == p.originalFileBuffer
        framesCount == animationData.framesCount
        bodySize == framesCount * p.frameSize
        preHeaderSize == p.headerStart
        headerSize == p.headerEnd - p.headerStart
        footerBuffer == FooterBuffer(p, animationData)
        totalSize == preHeaderSize + headerSize + bodySize + Len(footerBuffer)
    IN  IF totalSize < 0 THEN RepackFailed("RangeError")
        ELSE
        LET preHeader == Slice(orig, 0, p.headerStart)
            copyPre == preHeaderSize > 0
            writePtr1 == IF copyPre THEN preHeaderSize ELSE 0
            headerBytes == Slice(orig, p.headerStart, p.headerEnd)
        IN  IF copyPre /\ ~CanWrite(Zeros(totalSize), 0, Len(preHeader))
            THEN RepackFailed("RangeError")
            ELSE IF ~CanWrite(Zeros(totalSize), writePtr1, Len(headerBytes))
            THEN RepackFailed("RangeError")
            ELSE IF ~InView(orig, p.headerStart + 8, 2)
            THEN RepackFailed("RangeError")
            ELSE
            LET buf1 == IF copyPre THEN WriteAt(Zeros(totalSize), 0, preHeader)
                        ELSE Zeros(totalSize)
                buf2 == WriteAt(buf1, writePtr1, headerBytes)
                arrayCount == getInt16(orig, p.headerStart + 8)
                frameCountOffset == writePtr1 + 8 + 2 + arrayCount * 8
            IN  IF ~CanWrite(buf2, frameCountOffset, 4)
                THEN RepackFailed("RangeError")
                ELSE
                LET buf3 == WriteAt(buf2, frameCountOffset, Int32Bytes(framesCount))
                    writePtr2 == writePtr1 + headerSize
                    body == BodyStatus(animationData.frames, framesCount,
                                       p.bonesCount, writePtr2, totalSize)
                IN  IF body # "ok" THEN RepackFailed(body)
                    ELSE WriteBody(buf3, writePtr2,
                                   EncodeBody(animationData.frames, framesCount,
                                              p.boneIds, p.bonesCount, FALSE),
                                   footerBuffer)

(***************************************************************************)
(* src/parser.js: the signature is read at offset 0 only, and repack takes *)
(* its counts from the AnimationData it is given.                          *)
(***************************************************************************)
NewParserLegacy == [originalHeaderBuffer |-> NullBuffer, boneIds |-> <<>>]

LegacyData(frames, framesCount, bonesCount, boneIds) ==
    [frames |-> frames, framesCount |-> framesCount, bonesCount |-> bonesCount,
     boneIds |-> boneIds]

\* Reads the counts and the bone ids from the signature at `at`; `keep` is
\* the parser before "this.boneIds = []".
ReadHeader(keep, buf, at) ==
    IF ~InView(buf, at + 8, 2) THEN [ok |-> FALSE, parser |-> keep]
    ELSE
    LET arrayCount == getInt16(buf, at + 8)
        framesAt == at + 8 + 2 + arrayCount * 8
    IN  IF ~InView(buf, framesAt, 8) THEN [ok |-> FALSE, parser |-> keep]
        ELSE
        LET framesCount == getInt32(buf, framesAt)
            bonesCount == getInt32(buf, framesAt + 4)
            nIds == ReadableIds(buf, framesAt + 8, bonesCount)
            boneIds == ReadBoneIds(buf, framesAt + 8, nIds)
            p1 == [keep EXCEPT !.boneIds = boneIds]
        IN  IF nIds < bonesCount THEN [ok |-> FALSE, parser |-> p1]
            ELSE [ok |-> TRUE, parser |-> p1, arrayCount |-> arrayCount,
                  framesCount |-> framesCount, bonesCount |-> bonesCount,
                  boneIds |-> boneIds, headerEnd |-> framesAt + 8 + 2 * nIds]

BodyReadable(buf, h) ==
    \/ h.framesCount <= 0
    \/ h.bonesCount <= 0
    \/ InView(buf, h.headerEnd, h.framesCount * h.bonesCount * RecordSize)

parseLegacy(p, buf) ==
    IF ~InView(buf, 0, 8) THEN ParseFailed(p, "RangeError")
    ELSE IF ~HasMagicAt(buf, 0) THEN ParseFailed(p, "Invalid file signature")
    ELSE
    LET h == ReadHeader(p, buf, 0)
    IN  IF ~h.ok THEN ParseFailed(h.parser, "RangeError")
        ELSE
        LET p2 == [h.parser EXCEPT
                     !.originalHeaderBuffer = Slice(buf, 0, h.headerEnd)]
        IN  IF ~BodyReadable(buf, h) THEN ParseFailed(p2, "RangeError")
            ELSE ParseDone(p2,
                   LegacyData(DecodeFrames(buf, h.headerEnd, h.framesCount,
                                           h.bonesCount, h.boneIds, FALSE),
                              h.framesCount, h.bonesCount, h.boneIds))

\* The part of repack the two older parsers share: the retained header
\* bytes are placed at `prefixPadding`, the frame count is written at
\* `frameCountOffset`, and the body follows with the caller's bonesCount.
repackFromHeader(p, animationData, prefixPadding, frameCountOffset, swizzle) ==
    LET bonesCount == animationData.bonesCount
        framesCount == animationData.framesCount
        headerSize == Len(p.originalHeaderBuffer)
        bodySize == framesCount * bonesCount * RecordSize
        totalSize == prefixPadding + headerSize + bodySize
    IN  IF totalSize < 0 THEN RepackFailed("RangeError")
        ELSE IF ~CanWrite(Zeros(totalSize), prefixPadding, headerSize)
        THEN RepackFailed("RangeError")
        ELSE
        LET buf1 == WriteAt(Zeros(totalSize), prefixPadding, p.originalHeaderBuffer)
        IN  IF ~CanWrite(buf1, frameCountOffset, 4) THEN RepackFailed("RangeError")
            ELSE
            LET buf2 == WriteAt(buf1, frameCountOffset, Int32Bytes(framesCount))
                ptr == prefixPadding + headerSize
                body == BodyStatus(animationData.frames, framesCount, bonesCount,
                                   ptr, totalSize)
            IN  IF body # "ok" THEN RepackFailed(body)
                ELSE
                WriteBody(buf2, ptr,
                          EncodeBody(animationData.frames, framesCount,
                                     p.boneIds, bonesCount, swizzle),
                          <<>>)

repackLegacy(p, animationData) ==
    IF animationData = Null \/ p.originalHeaderBuffer = NullBuffer
    THEN RepackFailed(MissingBase)
    ELSE IF ~InView(p.originalHeaderBuffer, 8, 2) THEN RepackFailed("RangeError")
    ELSE repackFromHeader(p, animationData, 0,
             8 + 2 + getInt16(p.originalHeaderBuffer, 8) * 8, FALSE)

(***************************************************************************)
(* The scan-limited parser: the signature is searched in the first 1024    *)
(* offsets, rotations are kept as [X, Y, Z, W].                            *)
(***************************************************************************)
ScanLimit == 1024

NewParserScan ==
    [originalHeaderBuffer |-> NullBuffer, boneIds |-> <<>>,
     headerOffsetInfo |-> [start |-> 0, end |-> 0, garbSize |-> 0]]

FindHeaderScan(buf) ==
    LET found == ScanHeader(buf, Min(Len(buf) - 8, ScanLimit))
    IN  IF found # -1 THEN [at |-> found, cause |-> ""]
        ELSE IF ~InView(buf, 0, 8) THEN [at |-> -1, cause |-> "RangeError"]
        ELSE IF HasMagicAt(buf, 0) THEN [at |-> 0, cause |-> ""]
        ELSE [at |-> -1, cause |-> "Invalid file signature (Header not found)"]

parseScan(p, buf) ==
    LET f == FindHeaderScan(buf)
    IN  IF f.at = -1 THEN ParseFailed(p, f.cause)
        ELSE
        LET h == ReadHeader(p, buf, f.at)
        IN  IF ~h.ok THEN ParseFailed(h.parser, "RangeError")
            ELSE
            LET p2 == [h.parser EXCEPT
                         !.headerOffsetInfo = [start |-> f.at, end |-> h.headerEnd,
                                               garbSize |-> h.arrayCount],
                         !.originalHeaderBuffer = Slice(buf, 0, h.headerEnd)]
            IN  IF ~BodyReadable(buf, h) THEN ParseFailed(p2, "RangeError")
                ELSE ParseDone(p2,
                       LegacyData(DecodeFrames(buf, h.headerEnd, h.framesCount,
                                               h.bonesCount, h.boneIds, TRUE),
                                  h.framesCount, h.bonesCount, h.boneIds))

repackScan(p, animationData) ==
    IF animationData = Null \/ p.originalHeaderBuffer = NullBuffer
    THEN RepackFailed(MissingBase)
    ELSE repackFromHeader(p, animationData, p.headerOffsetInfo.start,
             p.headerOffsetInfo.start + 8 + 2 + p.headerOffsetInfo.garbSize * 8,
             TRUE)

(***************************************************************************)
(* The files offered to the parser.                                        *)
(***************************************************************************)
PrefixBytes(n) == [i \in 1..n |-> 16 + i]
GarbageBytes(arrayCount) == [i \in 1..(8 * Max(arrayCount, 0)) |-> 32 + i]
TrailBytes(n) == [i \in 1..n |-> 160 + i]
BaseBoneIds(n) == [i \in 1..Max(n, 0) |-> 3 + 2 * i]

\* Half-float patterns: 0, 1.0, the smallest subnormal, -65504, -0, +Infinity.
HalfSamples == << 0, 15360, 1, 64511, 32768, 31744 >>
HalfSample(i) == HalfSamples[(i % Len(HalfSamples)) + 1]

\* Record kinds: 1 the identity rotation, 2 a rotation whose omitted component
\* is negative, 3 a NaN position with a payload, 4 words that decode to no unit
\* quaternion.
SampleWords(kind) ==
    CASE kind = 1 -> << 28672, 8192, 16384 >>
      [] kind = 2 -> << 53248, 13760, 2017 >>
      [] kind = 3 -> << 12345, 23456, 34567 >>
      [] OTHER    -> << 0, 0, 0 >>
SampleRecord(kind, f, b) ==
    LET w == SampleWords(kind)
    IN  Uint16Bytes(IF kind = 3 THEN 31746 ELSE HalfSample(f))
        \o Uint16Bytes(HalfSample(b + 1)) \o Uint16Bytes(HalfSample(f + b + kind))
        \o Uint16Bytes(w[1]) \o Uint16Bytes(w[2]) \o Uint16Bytes(w[3])

SampleBody(kind, frames, bones) ==
    Flatten([f \in 1..Max(frames, 0) |->
        Flatten([b \in 1..Max(bones, 0) |-> SampleRecord(kind, f - 1, b - 1)])])

\* The layout parse reads: magic, arrayCount, garbage, framesCount, bonesCount,
\* bone ids, frame records, trailing data.
MkFile(prefix, arrayCount, framesCount, bonesCount, body, trailing) ==
    prefix \o MagicBytes \o Int16Bytes(arrayCount) \o GarbageBytes(arrayCount)
    \o Int32Bytes(framesCount) \o Int32Bytes(bonesCount)
    \o Flatten([i \in 1..Max(bonesCount, 0) |-> Int16Bytes(BaseBoneIds(bonesCount)[i])])
    \o body \o trailing

WellFormed(p, arrayCount, frames, bones, kind, trail) ==
    MkFile(PrefixBytes(p), arrayCount, frames, bones,
           SampleBody(kind, frames, bones), TrailBytes(trail))

\* Files whose header and body are complete: without and with a prefix
\* before the signature, a garbage region and trailing data.
LayoutFiles ==
    { WellFormed(0, 0, MaxFrames, MaxBones, 1, 0),
      WellFormed(MaxPrefix, 1, MaxFrames, MaxBones, 1, MaxTrail) }
CountFiles ==
    { WellFormed(0, 0, fb[1], fb[2], 2, MaxTrail) :
        fb \in {<< 0, 1 >>, << 1, 0 >>, << 1, 1 >>} }
KindFiles ==
    { WellFormed(0, 0, 1, 1, k, MaxTrail) : k \in 3..4 }
\* Headers with a negative count field.
NegativeFiles ==
    { MkFile(<<>>, 0, -1, 1, <<>>, TrailBytes(MaxTrail)),
      MkFile(<<>>, 0, 1, -1, <<>>, TrailBytes(MaxTrail)),
      MkFile(PrefixBytes(MaxPrefix), 0, -2, 1, <<>>, TrailBytes(MaxTrail)) }
\* A complete file in front of another one: the bytes before the second
\* signature contain a signature themselves.
Whole == WellFormed(0, 0, MaxFrames, MaxBones, 1, 0)
Empty == WellFormed(0, 0, 0, 0, 1, 0)
ConcatenatedFiles == { Empty \o WellFormed(0, 0, 1, 1, 1, MaxTrail) }
\* Buffers parse rejects: without a signature (24 zero bytes, the empty
\* buffer) and one cut inside the body.
RejectedFiles == { Zeros(24), <<>>, SubSeq(Whole, 1, Len(Whole) - 1) }

BaseFiles == LayoutFiles \cup CountFiles \cup KindFiles \cup NegativeFiles
             \cup ConcatenatedFiles \cup RejectedFiles

(***************************************************************************)
(* GLTFHandler.importGLTF.  A GLTF file is described by what the loader    *)
(* and the mixer deliver: an error, a scene without animations, or a scene *)
(* with ticks = ceil(duration * fps) and the ids of its named bones.       *)
(***************************************************************************)
ImportedRotation(pose) ==
    IF pose = 1 THEN IdentityRotation
    ELSE << ROne, RZero, RZero, RZero >>

\* Sampled poses: x and z vary with the frame and the bone, y is 0.1f.
ImportedEntry(pose, f, id) ==
    BoneEntry(id,
              << halfToFloat(HalfSample(f)), F32(0, 123, 5033165),
                 halfToFloat(HalfSample(id)) >>,
              ImportedRotation(pose))

GltfScenes ==
    { [kind |-> "scene", ticks |-> t, bones |-> << 7, 5 >>, pose |-> 2] :
        t \in 0..MaxImportFrames }
    \cup { [kind |-> "scene", ticks |-> 1, bones |-> << 5 >>, pose |-> 1] }
GltfFiles ==
    { [kind |-> k, ticks |-> 0, bones |-> <<>>, pose |-> 1] :
        k \in {"error", "noAnimations", "noBones"} } \cup GltfScenes

\* "x.originalFileBuffer" is truthy.
HasOriginalFileBuffer(x) ==
    /\ "originalFileBuffer" \in DOMAIN x
    /\ x.originalFileBuffer # NullBuffer

\* Math.ceil(a / b) for a >= 0, b > 0.
CeilDiv(a, b) == (a + b - 1) \div b

concatArrayBuffers(buffers) ==
    IF Len(buffers) = 0 THEN <<>>
    ELSE IF Len(buffers) = 1 THEN buffers[1]
    ELSE Flatten(buffers)

ImportRejected(error) == [ok |-> FALSE, error |-> error, data |-> Null]
ImportResolved(data) == [ok |-> TRUE, error |-> "", data |-> data]

importGLTF(gltf, originalAnimationData) ==
    IF gltf.kind = "error" THEN ImportRejected("loader error")
    ELSE IF gltf.kind = "noAnimations"
    THEN ImportRejected("No animations found in GLTF")
    ELSE IF gltf.kind = "noBones" \/ Len(gltf.bones) = 0
    THEN ImportRejected("No SF3-compatible bones found (check bone names)")
    ELSE
    LET totalFrames == Max(1, gltf.ticks)
        frames == [f \in 1..totalFrames |->
                     [bones |-> [i \in 1..Len(gltf.bones) |->
                         ImportedEntry(gltf.pose, f - 1, gltf.bones[i])]]]
        plain == [frames |-> frames, framesCount |-> totalFrames,
                  bonesCount |-> Len(gltf.bones), trailingData |-> NullBuffer]
    IN  IF originalAnimationData # Null
           /\ HasOriginalFileBuffer(originalAnimationData)
           /\ originalAnimationData.framesCount = 0
           /\ HasTrailingData(originalAnimationData)
        THEN \* ceil(n / 0) is Infinity: the chunk list grows until it fails.
             ImportRejected("RangeError")
        ELSE IF originalAnimationData # Null
           /\ HasOriginalFileBuffer(originalAnimationData)
           /\ originalAnimationData.framesCount > 0
        THEN LET repetitionsNeeded ==
                     CeilDiv(totalFrames, originalAnimationData.framesCount)
             IN  IF repetitionsNeeded > 1
                    /\ HasTrailingData(originalAnimationData)
                 THEN ImportResolved(
                        [frames |-> frames, framesCount |-> totalFrames,
                         bonesCount |-> Len(gltf.bones),
                         trailingData |-> concatArrayBuffers(
                             [i \in 1..repetitionsNeeded |->
                                 originalAnimationData.trailingData]),
                         trailingDataMultiplied |-> repetitionsNeeded])
                 ELSE ImportResolved(plain)
        ELSE ImportResolved(plain)

\* The importGLTF of src/unnamed/part_002: the trailing data of the
\* AnimationData passed in is handed back, repeated ceil(totalFrames /
\* framesCount) times when that factor exceeds 1.
importGLTFMultiplier(gltf, originalAnimationData) ==
    IF gltf.kind = "error" THEN ImportRejected("loader error")
    ELSE IF gltf.kind = "noAnimations"
    THEN ImportRejected("No animations found in GLTF")
    ELSE IF gltf.kind = "noBones" \/ Len(gltf.bones) = 0
    THEN ImportRejected("No SF3-compatible bones found")
    ELSE
    LET totalFrames == Max(1, gltf.ticks)
        frames == [f \in 1..totalFrames |->
                     [bones |-> [i \in 1..Len(gltf.bones) |->
                         ImportedEntry(gltf.pose, f - 1, gltf.bones[i])]]]
        trailingData ==
            IF originalAnimationData # Null
               /\ "trailingData" \in DOMAIN originalAnimationData
            THEN originalAnimationData.trailingData ELSE NullBuffer
        multiplier ==
            IF originalAnimationData # Null
               /\ originalAnimationData.framesCount > 0
               /\ totalFrames > originalAnimationData.framesCount
               /\ trailingData # NullBuffer
            THEN CeilDiv(totalFrames, originalAnimationData.framesCount)
            ELSE 1
    IN  ImportResolved(
            [frames |-> frames, framesCount |-> totalFrames,
             bonesCount |-> Len(gltf.bones),
             trailingData |-> IF multiplier > 1
                              THEN Flatten([i \in 1..multiplier |-> trailingData])
                              ELSE trailingData,
             trailingDataMultiplier |-> multiplier])

(***************************************************************************)
(* src/unnamed/part_002:459-534: the repack that writes a header of its    *)
(* own (no garbage region) and takes the counts and the bone ids from the  *)
(* AnimationData.                                                          *)
(***************************************************************************)
SynthHeader(framesCount, bonesCount, boneIds) ==
    MagicBytes \o Int16Bytes(0) \o Int32Bytes(framesCount)
    \o Int32Bytes(bonesCount)
    \o Flatten([i \in 1..Max(bonesCount, 0) |->
                  Int16Bytes(IF i <= Len(boneIds) THEN boneIds[i] ELSE 0)])

\* The six setUint16 calls of one record as << offset, bytes >>:
\* "view.setUint16(ptr, ...); ptr+=2; view.setUint16(ptr+2, ...); ptr+=2;
\* view.setUint16(ptr+4, ...); ptr+=2;" then ptr+6, ptr+8, ptr+10 and
\* "ptr += 12".
RecordWritesSynth(ptr, pos, rot) ==
    << << ptr, SubSeq(pos, 1, 2) >>,
       << (ptr + 2) + 2, SubSeq(pos, 3, 4) >>,
       << (ptr + 4) + 4, SubSeq(pos, 5, 6) >>,
       << (ptr + 6) + 6, SubSeq(rot, 1, 2) >>,
       << (ptr + 6) + 8, SubSeq(rot, 3, 4) >>,
       << (ptr + 6) + 10, SubSeq(rot, 5, 6) >> >>
PtrAfterRecordSynth(ptr) == ((ptr + 6) + 12)

\* The boneData of the body loop in the order it is written.
BodyRecordsSynth(frames, framesCount, boneIds, bonesCount) ==
    Flatten([f \in 1..Max(Min(framesCount, Len(frames)), 0) |->
        [b \in 1..Max(bonesCount, 0) |->
            LookupSlot(frames[f].bones, boneIds, b)]])

\* DataView.setUint16 throws a RangeError when the two bytes leave the view.
RECURSIVE ApplyWrites(_, _)
ApplyWrites(buf, writes) ==
    IF writes = <<>> THEN RepackDone(buf, Len(buf), <<>>)
    ELSE IF ~CanWrite(buf, Head(writes)[1], 2) THEN RepackFailed("RangeError")
    ELSE ApplyWrites(WriteAt(buf, Head(writes)[1], Head(writes)[2]),
                     Tail(writes))

\* "const frame = animationData.frames[f]; frame.bones.forEach(...)" throws a
\* TypeError at the first frame the array does not have.
FinishSynth(done, frames, framesCount) ==
    IF done.status = "ok" /\ framesCount > Len(frames)
    THEN RepackFailed("TypeError")
    ELSE done

RECURSIVE BodyWritesSynth(_, _)
BodyWritesSynth(ptr, records) ==
    IF records = <<>> THEN <<>>
    ELSE RecordWritesSynth(ptr, PositionBytes(Head(records).position),
                           RotationBytes(Head(records).rotation))
         \o BodyWritesSynth(PtrAfterRecordSynth(ptr), Tail(records))

repackSynth(animationData) ==
    IF animationData = Null THEN RepackFailed("No data to compile")
    ELSE
    LET bonesCount == animationData.bonesCount
        headerSize == 8 + 2 + 0 + 4 + 4 + bonesCount * 2
        bufferSize == headerSize + animationData.framesCount * bonesCount * 12
        header == SynthHeader(animationData.framesCount, bonesCount,
                              animationData.boneIds)
    IN  IF bufferSize < 0 \/ ~CanWrite(Zeros(bufferSize), 0, Len(header))
        THEN RepackFailed("RangeError")
        ELSE FinishSynth(
                 ApplyWrites(WriteAt(Zeros(bufferSize), 0, header),
                     BodyWritesSynth(headerSize,
                         BodyRecordsSynth(animationData.frames,
                                          animationData.framesCount,
                                          animationData.boneIds, bonesCount))),
                 animationData.frames, animationData.framesCount)

(***************************************************************************)
(* The application: one AnimationParser (one of the parser files of the    *)
(* repository), App.animationData, and what callers of the parser observe. *)
(***************************************************************************)
VARIABLES variant, parser, animationData, controlsEnabled, everParsed,
          imported, lastParse, lastRepack, sample, pending

vars == << variant, parser, animationData, controlsEnabled, everParsed,
           imported, lastParse, lastRepack, sample, pending >>

\* What the event loop holds for the page: file reads and GLTF loads that
\* have not settled, the promise jobs queued, how many files have been
\* chosen, and the playback state of the App constructor (the slider starts
\* with the largest frame count of the files below as its maximum).
NoPending ==
    [page |-> "app.js", reads |-> {}, imports |-> {}, jobs |-> <<>>,
     started |-> 0, currentFrame |-> 0, isPlaying |-> FALSE, totalFrames |-> 0,
     sliderMax |-> MaxFrames]

Variants == {"main", "legacy", "scan"}

NewParserOf(v) ==
    CASE v = "main" -> NewParser
      [] v = "legacy" -> NewParserLegacy
      [] OTHER -> NewParserScan

Parse(v, p, buf) ==
    CASE v = "main" -> parse(p, buf)
      [] v = "legacy" -> parseLegacy(p, buf)
      [] OTHER -> parseScan(p, buf)

Repack(v, p, data) ==
    CASE v = "main" -> repack(p, data)
      [] v = "legacy" -> repackLegacy(p, data)
      [] OTHER -> repackScan(p, data)

NoParse ==
    [called |-> FALSE, buf |-> <<>>, ok |-> FALSE, data |-> Null, error |-> ""]
\* A use of the codec outside the app: the function called, its argument,
\* the number of calls made so far and, once the last one has returned, its
\* result.
NoSample ==
    [fn |-> "none", arg |-> <<>>, step |-> 0, done |-> FALSE, result |-> <<>>]

NoRepack ==
    [called |-> FALSE, by |-> "none", edit |-> "none", arg |-> Null,
     result |-> RepackFailed("none")]

Init ==
    /\ variant \in Variants
    /\ parser = NewParserOf(variant)
    /\ animationData = Null
    /\ controlsEnabled = FALSE
    /\ everParsed = FALSE
    /\ imported = FALSE
    /\ lastParse = NoParse
    /\ lastRepack = NoRepack
    /\ sample = NoSample
    /\ pending = NoPending

\* App.handleBaseFile: parse the chosen file; adopt the result or report.
HandleBaseFile(buf) ==
    \E r \in {Parse(variant, parser, buf)} :
        /\ parser' = r.parser
        /\ animationData' = IF r.ok THEN r.data ELSE animationData
        /\ controlsEnabled' = r.ok
        /\ everParsed' = (everParsed \/ r.ok)
        /\ imported' = (imported /\ ~r.ok)
        /\ lastParse' = [called |-> TRUE, buf |-> buf, ok |-> r.ok,
                         data |-> r.data, error |-> r.error]
        /\ lastRepack' = NoRepack
        /\ UNCHANGED << pending, variant, sample >>

\* "this.animationData.frames = ...; .framesCount = ...; if
\* (newData.trailingData) this.animationData.trailingData = ..."
MergeImport(data, newData) ==
    LET merged == [data EXCEPT !.frames = newData.frames,
                               !.framesCount = newData.framesCount]
    IN  IF newData.trailingData = NullBuffer THEN merged
        ELSE [k \in DOMAIN merged \cup {"trailingData"} |->
                 IF k = "trailingData" THEN newData.trailingData ELSE merged[k]]

\* App.handleGltfImport.
HandleGltfImport(gltf) ==
    /\ IF animationData = Null \/ ~HasOriginalFileBuffer(parser)
       THEN UNCHANGED << animationData, imported >>
       ELSE \E r \in {importGLTF(gltf, animationData)} :
                IF r.ok
                THEN /\ animationData' = MergeImport(animationData, r.data)
                     /\ imported' = TRUE
                ELSE UNCHANGED << animationData, imported >>
    /\ lastRepack' = NoRepack
    /\ UNCHANGED << pending, variant, parser, controlsEnabled, everParsed, lastParse,
                    sample >>

\* btnCompile.onclick with a repack that hands its buffer over: the parser
\* no longer holds the original file afterwards.
CompileDetaching ==
    /\ IF animationData = Null
       THEN UNCHANGED << lastRepack, parser >>
       ELSE /\ lastRepack' = [called |-> TRUE, by |-> "btnCompile",
                              edit |-> "same", arg |-> animationData,
                              result |-> Repack(variant, parser, animationData)]
            /\ parser' = [parser EXCEPT !.originalFileBuffer = NullBuffer]
    /\ UNCHANGED << pending, variant, animationData, controlsEnabled, everParsed,
                    imported, lastParse, sample >>

\* btnCompile.onclick.
Compile ==
    /\ IF animationData = Null
       THEN UNCHANGED lastRepack
       ELSE lastRepack' = [called |-> TRUE, by |-> "btnCompile", edit |-> "same",
                           arg |-> animationData,
                           result |-> Repack(variant, parser, animationData)]
    /\ UNCHANGED << pending, variant, parser, animationData, controlsEnabled, everParsed,
                    imported, lastParse, sample >>

\* What a caller of repack may have done to the AnimationData it passes.
CallerEdits ==
    {"noTrailing", "emptyTrailing", "dropBone", "reverseBones", "otherCounts",
     "foreign"}

Reverse(seq) == [i \in 1..Len(seq) |-> seq[Len(seq) + 1 - i]]
MapBones(frames, Op(_)) ==
    [f \in 1..Len(frames) |-> [frames[f] EXCEPT !.bones = Op(@)]]
DropFirst(seq) == IF Len(seq) = 0 THEN seq ELSE Tail(seq)

ForeignData ==
    importGLTF([kind |-> "scene", ticks |-> 1, bones |-> << 5 >>, pose |-> 1],
               Null).data

Edited(e, data) ==
    IF e = "foreign" THEN ForeignData
    ELSE IF data = Null THEN Null
    ELSE CASE e = "noTrailing" ->
                IF "trailingData" \in DOMAIN data
                THEN [data EXCEPT !.trailingData = NullBuffer] ELSE data
           [] e = "emptyTrailing" ->
                IF "trailingData" \in DOMAIN data
                THEN [data EXCEPT !.trailingData = <<>>] ELSE data
           [] e = "dropBone" ->
                [data EXCEPT !.frames = MapBones(@, DropFirst)]
           [] e = "reverseBones" ->
                [data EXCEPT !.frames = MapBones(@, Reverse)]
           [] OTHER ->
                [data EXCEPT !.bonesCount = @ + 1, !.boneIds = << 9 >> \o @]

\* A direct call of animationParser.repack.
CallRepack(e) ==
    /\ \E arg \in {Edited(e, animationData)} :
          lastRepack' = [called |-> TRUE, by |-> "caller", edit |-> e,
                         arg |-> arg,
                         result |-> Repack(variant, parser, arg)]
    /\ UNCHANGED << pending, variant, parser, animationData, controlsEnabled, everParsed,
                    imported, lastParse, sample >>

Next ==
    \/ \E buf \in BaseFiles : HandleBaseFile(buf)
    \/ \E gltf \in GltfFiles : HandleGltfImport(gltf)
    \/ Compile
    \/ \E e \in CallerEdits : CallRepack(e)

Spec == Init /\ [][Next]_vars

(***************************************************************************)
(* The codec used outside the app's event handlers: parse on a fresh       *)
(* parser, the half-float pair, the quaternion pair and its bit packing,   *)
(* one parser shared by two decodes, and a row of GLTF imports with either *)
(* importGLTF of the repository.                                           *)
(***************************************************************************)
app == << variant, parser, animationData, controlsEnabled, everParsed,
          imported, lastParse, lastRepack, pending >>

\* Every cut of a file with a prefix, a garbage region and trailing data,
\* and headers that announce more than the buffer holds.
CutFile == WellFormed(MaxPrefix, 1, 1, MaxBones, 1, MaxTrail)
Cuts(file) == {SubSeq(file, 1, n) : n \in 0..Len(file)}
OverstatedFiles ==
    { MkFile(<<>>, 0, MaxFrames + 1, 1, SampleBody(1, MaxFrames, 1), <<>>),
      MkFile(<<>>, 0, 1, MaxBones + 1, SampleBody(1, 1, MaxBones), <<>>),
      MkFile(<<>>, 1, 1, 1, <<>>, <<>>) }
ParseSamples == Cuts(CutFile) \cup OverstatedFiles \cup NegativeFiles

\* One parser shared by two decodes: the caller keeps the data of the first
\* buffer, parses a second one and repacks the data it kept.
ShareFirst == LayoutFiles
ShareSecond == LayoutFiles \cup {SubSeq(Whole, 1, Len(Whole) - 1), Zeros(24)}
ShareSamples == ShareFirst \X ShareSecond

Sample(fn, arg) ==
    [fn |-> fn, arg |-> arg, step |-> 0, done |-> FALSE, result |-> <<>>]

\* Unit quaternions (the squares add up to One): two non-zero components in
\* every pair of places and with every sign, from an axis rotation by a
\* vanishing angle to the tie of both; three non-zero components of which
\* two tie for the largest; and four of nearly the same magnitude.
SquareSamples ==
    {0, 1, 4, 100 * 100, 20000 * 20000, 32766 * 32766, QuantMax * QuantMax}
Signed(neg, sq) == Real(neg /\ sq > 0, sq)
TwoComponents(i, j, sq, ni, nj) ==
    [k \in 1..4 |-> IF k = i THEN Signed(ni, sq)
                    ELSE IF k = j THEN Signed(nj, One - sq) ELSE RZero]
TieSquare == 27000 * 27000
ThreeComponents(i, n) ==
    [k \in 1..4 |-> IF k = i THEN RZero
                    ELSE IF k = (i % 4) + 1 THEN Real(n, One - 2 * TieSquare)
                    ELSE Real(~n, TieSquare)]
EvenSquare == 23170 * 23170
FourComponents(i, n) ==
    [k \in 1..4 |-> IF k = i THEN Real(n, One - 3 * EvenSquare)
                    ELSE Real(k % 2 = 0, EvenSquare)]
Places == {p \in (1..4) \X (1..4) : p[1] # p[2]}
QuatSamples ==
    {TwoComponents(p[1], p[2], sq, ni, nj) :
        p \in Places, sq \in SquareSamples, ni \in BOOLEAN, nj \in BOOLEAN}
    \cup {ThreeComponents(i, n) : i \in 1..4, n \in BOOLEAN}
    \cup {FourComponents(i, n) : i \in 1..4, n \in BOOLEAN}

\* The fields compressQuaternion assembles into three words: both sign
\* bits, every index, and 15-bit values with their low and high bits set.
BitSamples == {0, 1, 2, 3, 21845, QuantMax}
PackSamples ==
    [signBit : 0..1, maxIdx : 0..3, aBits : BitSamples, bBits : BitSamples,
     cBits : BitSamples]

\* JS numbers handed to float32ToFloat16: 0, -0, 1, -1, 65504, the
\* infinities, NaNs as the engines store them (quiet bit set), 2^-24 and
\* numbers of magnitude below 2^-24, down to the binary32 subnormals and up
\* to the last binary64 values before 2^-24.
ExactSamples ==
    { Number(s, e, 0, 0) : s \in 0..1, e \in {0, 127, 255} }
    \cup { Number(0, 142, 1023 * 8192, 0) }
NaNSamples == { Number(s, 255, 4194304 + p, 0) : s \in 0..1, p \in {0, 1} }
TinySamples ==
    { Number(s, e, m, low) :
        s \in 0..1, e \in {0, 1, 102}, m \in {0, 1, Pow2(23) - 1}, low \in 0..3 }
NumberSamples ==
    ExactSamples \cup NaNSamples \cup TinySamples \cup { Number(0, 103, 0, 0) }

\* Finite binary32 values from the smallest binary16 normal (2^-14) to the
\* largest binary32: the 13 mantissa bits float32ToFloat16 discards are
\* zero, below, at and above half a unit of the binary16 mantissa, under an
\* even and an odd binary16 mantissa and under the largest one.
DiscardedSamples == {0, 1, 4095, 4096, 4097, 8191}
KeptSamples == {0, 1, 1022, 1023}
EncodeSamples ==
    { Number(s, e, kept * 8192 + r, 0) :
        s \in 0..1, e \in {113, 126, 127, 141, 142, 143, 200, 254},
        kept \in KeptSamples, r \in DiscardedSamples }

\* 16-bit patterns handed to halfToFloat: every zero and subnormal, and for
\* each other exponent (normals, and 31: infinities and NaNs) the mantissas
\* at both ends and around the middle, with either sign.
MantissaSamples == {0, 1, 2, 511, 512, 513, 1022, 1023}
PatternSamples ==
    { s * 32768 + f : s \in 0..1, f \in 0..1023 }
    \cup { s * 32768 + e * 1024 + f :
              s \in 0..1, e \in 1..31, f \in MantissaSamples }

\* GLTF imports in a row after one base file (one frame, MaxTrail trailing
\* bytes), with either importGLTF of the repository.
Importers == {"gltf-handler.js", "part_002"}
ImportTicks == {1, 2, MaxImportFrames}
ImportSamples ==
    [base : {WellFormed(0, 0, 1, 1, 2, MaxTrail)}, importer : Importers,
     ticks : ImportTicks \X ImportTicks]

\* parse of the file by the parser of part_002:635-803, then repack of the
\* AnimationData it returned, by that parser or by the header-synthesizing
\* one.
LayoutSamples ==
    [repacker : {"main", "synth"},
     buf : LayoutFiles \cup CountFiles \cup KindFiles]
RepackWith(repacker, parsed) ==
    IF repacker = "synth" THEN repackSynth(parsed.data)
    ELSE repack(parsed.parser, parsed.data)
Layout(repacker, parsed) ==
    [parsed |-> parsed,
     repacked |-> IF parsed.ok THEN RepackWith(repacker, parsed)
                  ELSE RepackFailed(parsed.error)]

\* Buffers for the header locators: the signature behind 0..MaxPrefix bytes
\* and in front of 0..MaxTrail bytes (none: it ends the buffer), twice in
\* one buffer, absent, and at the offsets around the scan limit.
SignatureAt(before, after) == Zeros(before) \o MagicBytes \o TrailBytes(after)
LocateBuffers ==
    {SignatureAt(b, a) : b \in 0..MaxPrefix, a \in 0..MaxTrail}
    \cup {SignatureAt(b, MaxTrail) : b \in (ScanLimit - 1)..(ScanLimit + 1)}
    \cup {SignatureAt(1, 0) \o MagicBytes, Zeros(24), Zeros(7), <<>>}
LocateSamples == [locator : {"main", "scan"}, buf : LocateBuffers]

Samples ==
    {Sample("parse", buf) : buf \in ParseSamples}
    \cup {Sample("locate", l) : l \in LocateSamples}
    \cup {Sample("layout", l) : l \in LayoutSamples}
    \cup {Sample("encode", x) : x \in EncodeSamples}
    \cup {Sample("reencode", h) : h \in PatternSamples}
    \cup {Sample("imports", s) : s \in ImportSamples}
    \cup {Sample("half", x) : x \in NumberSamples}
    \cup {Sample("pack", f) : f \in PackSamples}
    \cup {Sample("share", pair) : pair \in ShareSamples}
    \cup {Sample("quat", q) : q \in QuatSamples}

CodecInit ==
    /\ variant = "main"
    /\ parser = NewParser
    /\ animationData = Null
    /\ controlsEnabled = FALSE
    /\ everParsed = FALSE
    /\ imported = FALSE
    /\ lastParse = NoParse
    /\ lastRepack = NoRepack
    /\ sample \in Samples
    /\ pending = NoPending

Returns(fn, result) ==
    /\ sample.fn = fn
    /\ ~sample.done
    /\ sample' = [sample EXCEPT !.done = TRUE, !.result = result]
    /\ UNCHANGED app

CallParse == Returns("parse", parse(NewParser, sample.arg))

\* animationParser.parse called twice on the one exported parser; the data
\* of the first call is what the caller holds on to.
ShareParse ==
    /\ sample.fn = "share"
    /\ sample.step < 2
    /\ \E r \in {parse(parser, sample.arg[sample.step + 1])} :
          /\ parser' = r.parser
          /\ animationData' = IF sample.step = 0 THEN r.data ELSE animationData
          /\ lastParse' = [called |-> TRUE, buf |-> sample.arg[sample.step + 1],
                           ok |-> r.ok, data |-> r.data, error |-> r.error]
    /\ sample' = [sample EXCEPT !.step = @ + 1]
    /\ UNCHANGED << pending, variant, controlsEnabled, everParsed, imported, lastRepack >>

\* animationParser.repack called with the data kept from the first decode.
ShareRepack ==
    /\ sample.fn = "share"
    /\ sample.step = 2
    /\ ~sample.done
    /\ lastRepack' = [called |-> TRUE, by |-> "caller", edit |-> "same",
                      arg |-> animationData,
                      result |-> repack(parser, animationData)]
    /\ sample' = [sample EXCEPT !.done = TRUE]
    /\ UNCHANGED << pending, variant, parser, animationData, controlsEnabled, everParsed,
                    imported, lastParse >>

\* parseCompressedQuaternion applied to the words compressQuaternion returns.
Decompressed(packed) ==
    [words |-> packed,
     rotation |-> parseCompressedQuaternion(packed[1], packed[2], packed[3])]

CallQuat ==
    Returns("quat", Decompressed(compressQuaternion(sample.arg[1], sample.arg[2],
                                                    sample.arg[3], sample.arg[4])))

\* The field extraction of parseCompressedQuaternion applied to the words
\* compressQuaternion assembles.
Extracted(packed) ==
    [words |-> packed, fields |-> Fields(packed[1], packed[2], packed[3])]

CallPack ==
    Returns("pack", Extracted(PackWords(sample.arg.signBit, sample.arg.maxIdx,
                                        sample.arg.aBits, sample.arg.bBits,
                                        sample.arg.cBits)))

CallHalf == Returns("half", halfToFloat(float32ToFloat16(ToFloat32(sample.arg))))

\* handleBaseFile, then handleGltfImport once per clip, then btnCompile,
\* with the importGLTF the sample names.
ImportsBase ==
    /\ sample.fn = "imports"
    /\ sample.step = 0
    /\ \E r \in {parse(parser, sample.arg.base)} :
          /\ parser' = r.parser
          /\ animationData' = r.data
          /\ lastParse' = [called |-> TRUE, buf |-> sample.arg.base, ok |-> r.ok,
                           data |-> r.data, error |-> r.error]
    /\ sample' = [sample EXCEPT !.step = 1]
    /\ UNCHANGED << pending, variant, controlsEnabled, everParsed, imported, lastRepack >>

Clip(ticks) == [kind |-> "scene", ticks |-> ticks, bones |-> << 5 >>, pose |-> 1]

ImportWith(importer, gltf, originalAnimationData) ==
    IF importer = "part_002" THEN importGLTFMultiplier(gltf, originalAnimationData)
    ELSE importGLTF(gltf, originalAnimationData)

ImportsImport ==
    /\ sample.fn = "imports"
    /\ sample.step \in 1..Len(sample.arg.ticks)
    /\ \E r \in {ImportWith(sample.arg.importer,
                             Clip(sample.arg.ticks[sample.step]), animationData)} :
          animationData' = MergeImport(animationData, r.data)
    /\ imported' = TRUE
    /\ sample' = [sample EXCEPT !.step = @ + 1]
    /\ UNCHANGED << pending, variant, parser, controlsEnabled, everParsed, lastParse,
                    lastRepack >>

ImportsCompile ==
    /\ sample.fn = "imports"
    /\ sample.step = Len(sample.arg.ticks) + 1
    /\ ~sample.done
    /\ lastRepack' = [called |-> TRUE, by |-> "btnCompile", edit |-> "same",
                      arg |-> animationData,
                      result |-> repack(parser, animationData)]
    /\ sample' = [sample EXCEPT !.done = TRUE]
    /\ UNCHANGED << pending, variant, parser, animationData, controlsEnabled, everParsed,
                    imported, lastParse >>

\* Step 1 of parse, "Find header", of either parser file.
Locate(locator, buf) ==
    IF locator = "scan" THEN FindHeaderScan(buf) ELSE FindHeader(buf)

CallLocate == Returns("locate", Locate(sample.arg.locator, sample.arg.buf))

CallEncode == Returns("encode", float32ToFloat16(ToFloat32(sample.arg)))

\* A position field of a parsed file written back by repack.
CallReencode == Returns("reencode", float32ToFloat16(halfToFloat(sample.arg)))

CallLayout ==
    Returns("layout", Layout(sample.arg.repacker, parse(NewParser, sample.arg.buf)))

CodecNext ==
    \/ CallParse
    \/ CallLayout
    \/ CallEncode
    \/ CallReencode
    \/ CallLocate
    \/ ImportsBase
    \/ ImportsImport
    \/ ImportsCompile
    \/ CallHalf
    \/ CallPack
    \/ CallQuat
    \/ ShareParse
    \/ ShareRepack

Codec == CodecInit /\ [][CodecNext]_vars

(***************************************************************************)
(* The viewer app on the browser's event loop: src/app.js, and the CSV     *)
(* viewer of part_000, both with the parser of part_002.  The handlers of  *)
(* file inputs are async functions, so a handler runs in pieces.  A file   *)
(* read or a GLTF load settles whenever the browser is done with it, in    *)
(* any order; the rest of the handler is a promise job, and the jobs run   *)
(* first in, first out before the next event (a click, a chosen file, an   *)
(* animation frame) is delivered.                                          *)
(***************************************************************************)
MaxEvents == 3

Pages == {"app.js", "part_000"}

\* Two files that parse (of different skeletons, layouts and frame counts)
\* and one cut inside its body.
CutInBody(file) == SubSeq(file, 1, Len(file) - 1)
LoadFiles ==
    { WellFormed(0, 0, 1, 1, 2, MaxTrail),
      WellFormed(MaxPrefix, 1, MaxFrames, 2, 1, MaxTrail),
      CutInBody(WellFormed(0, 0, 1, 2, 1, 0)) }
\* A clip of more frames than any of the files, and one the loader rejects.
LoadGltf ==
    { [kind |-> "scene", ticks |-> MaxFrames + 1, bones |-> << 7, 5 >>, pose |-> 2],
      [kind |-> "error", ticks |-> 0, bones |-> <<>>, pose |-> 1] }

EventsInit ==
    /\ variant = "main"
    /\ parser = NewParser
    /\ animationData = Null
    /\ controlsEnabled = FALSE
    /\ everParsed = FALSE
    /\ imported = FALSE
    /\ lastParse = NoParse
    /\ lastRepack = NoRepack
    /\ sample = NoSample
    /\ \E page \in Pages : pending = [NoPending EXCEPT !.page = page]

\* No promise job is queued: the next event can be delivered.
Idle == pending.jobs = <<>>

Enqueue(job) == [pending EXCEPT !.jobs = Append(@, job)]
Dequeue(p) == [p EXCEPT !.jobs = Tail(@)]

\* The slider of the page: the markup is not among the sources; the values
\* start at the one the page's code writes for frame 0 ("timeline.value =
\* this.currentFrame" in app.js, "timelineSlider.value = this.currentFrame +
\* 1" in part_000) and end at the maximum the code has set.  A range input
\* whose maximum is below its minimum has the minimum as its value.
SliderMin(page) == IF page = "part_000" THEN 1 ELSE 0
SliderValues(p) ==
    IF p.sliderMax < SliderMin(p.page) THEN {SliderMin(p.page)}
    ELSE SliderMin(p.page)..p.sliderMax

\* part_000 updateFrame: "if (this.currentFrame >= this.totalFrames)
\* this.currentFrame = 0", once there is animation data.
updateFrame(p, data) ==
    IF data # Null /\ p.currentFrame >= p.totalFrames
    THEN [p EXCEPT !.currentFrame = 0]
    ELSE p

\* resetPlaybackState without "this.currentFrame = 0".
resetKeepingFrame(p, data) ==
    IF p.page = "part_000"
    THEN updateFrame([p EXCEPT !.totalFrames = data.framesCount,
                               !.isPlaying = FALSE,
                               !.sliderMax = data.framesCount], data)
    ELSE [p EXCEPT !.isPlaying = TRUE,
                   !.sliderMax = IF data # Null THEN data.framesCount - 1 ELSE @]

\* app.js resetPlaybackState; in part_000 the "Reset State" and "Update UI"
\* lines of handleFileUpload.
resetPlaybackState(p, data) ==
    IF p.page = "part_000"
    THEN updateFrame([p EXCEPT !.totalFrames = data.framesCount,
                               !.currentFrame = 0,
                               !.isPlaying = FALSE,
                               !.sliderMax = data.framesCount], data)
    ELSE [p EXCEPT !.currentFrame = 0,
                   !.isPlaying = TRUE,
                   !.sliderMax = IF data # Null THEN data.framesCount - 1 ELSE @]

\* fileInput.onchange: the handler up to "await file.arrayBuffer()".
ChooseBaseFile(buf) ==
    /\ Idle
    /\ pending.started < MaxEvents
    /\ pending' = [pending EXCEPT
                     !.reads = @ \cup {[id |-> pending.started, buf |-> buf]},
                     !.started = @ + 1]
    /\ UNCHANGED << variant, parser, animationData, controlsEnabled, everParsed,
                    imported, lastParse, lastRepack, sample >>

\* The read of one of the chosen files settles.
BufferRead(r) ==
    /\ pending' = [Enqueue([kind |-> "parse", buf |-> r.buf])
                     EXCEPT !.reads = @ \ {r}]
    /\ UNCHANGED << variant, parser, animationData, controlsEnabled, everParsed,
                    imported, lastParse, lastRepack, sample >>

\* "animationParser.parse(buffer)": the body of the async parse runs at the
\* call; "this.animationData = await ..." continues in a later job.
ParseJob(job, parsed) ==
    /\ parser' = parsed.parser
    /\ pending' = Dequeue(Enqueue([kind |-> "adopt", ok |-> parsed.ok,
                                   data |-> parsed.data]))
    /\ UNCHANGED << animationData, controlsEnabled >>

\* The catch of handleBaseFile without "this.enableControls(false)".
AdoptKeepingControls(job) ==
    /\ IF job.ok
       THEN /\ animationData' = job.data
            /\ controlsEnabled' = (pending.page = "app.js")
            /\ pending' = Dequeue(resetPlaybackState(pending, job.data))
       ELSE /\ UNCHANGED << animationData, controlsEnabled >>
            /\ pending' = Dequeue(pending)
    /\ UNCHANGED parser

\* The handler after the await: adopt the data, reset the playback state
\* and (app.js) enable the controls, or the catch.
AdoptJob(job) ==
    /\ IF job.ok
       THEN /\ animationData' = job.data
            /\ controlsEnabled' = (pending.page = "app.js")
            /\ pending' = Dequeue(resetPlaybackState(pending, job.data))
       ELSE /\ controlsEnabled' = FALSE
            /\ UNCHANGED animationData
            /\ pending' = Dequeue(pending)
    /\ UNCHANGED parser

\* handleGltfImport after "await gltfHandler.importGLTF(...)".
MergeJob(job) ==
    /\ IF job.ok
       THEN \E merged \in {MergeImport(animationData, job.data)} :
               /\ animationData' = merged
               /\ pending' = Dequeue(resetPlaybackState(pending, merged))
       ELSE /\ UNCHANGED animationData
            /\ pending' = Dequeue(pending)
    /\ UNCHANGED << parser, controlsEnabled >>

RunJob ==
    /\ pending.jobs # <<>>
    /\ \E job \in {Head(pending.jobs)} :
          CASE job.kind = "parse" ->
                 \E parsed \in {parse(parser, job.buf)} : ParseJob(job, parsed)
            [] job.kind = "adopt" -> AdoptJob(job)
            [] OTHER -> MergeJob(job)
    /\ UNCHANGED << variant, everParsed, imported, lastParse, lastRepack,
                    sample >>

\* btnImport.onclick and gltfInput.onchange: handleGltfImport up to the
\* await; the import keeps the AnimationData it was started with.
ChooseGltf(gltf) ==
    /\ Idle
    /\ controlsEnabled
    /\ pending.started < MaxEvents
    /\ pending' =
         IF animationData = Null \/ ~HasOriginalFileBuffer(parser)
         THEN [pending EXCEPT !.started = @ + 1]
         ELSE [pending EXCEPT
                 !.imports = @ \cup {[id |-> pending.started, gltf |-> gltf,
                                      original |-> animationData]},
                 !.started = @ + 1]
    /\ UNCHANGED << variant, parser, animationData, controlsEnabled, everParsed,
                    imported, lastParse, lastRepack, sample >>

\* The loader calls back: the promise of importGLTF settles.
GltfLoaded(i) ==
    /\ \E r \in {importGLTF(i.gltf, i.original)} :
          pending' = [Enqueue([kind |-> "merge", ok |-> r.ok, data |-> r.data])
                        EXCEPT !.imports = @ \ {i}]
    /\ UNCHANGED << variant, parser, animationData, controlsEnabled, everParsed,
                    imported, lastParse, lastRepack, sample >>

\* A click on btnCompile, which enableControls(false) disables.
ClickCompile ==
    /\ Idle
    /\ controlsEnabled
    /\ Compile

\* loop(timestamp) when the frame interval has passed.
Tick ==
    /\ Idle
    /\ pending.isPlaying
    /\ animationData # Null
    /\ IF pending.page = "part_000"
       THEN pending' = updateFrame([pending EXCEPT !.currentFrame = @ + 1],
                                   animationData)
       ELSE /\ animationData.framesCount > 0
            /\ pending' = [pending EXCEPT
                 !.currentFrame = (@ + 1) % animationData.framesCount]
    /\ UNCHANGED << variant, parser, animationData, controlsEnabled, everParsed,
                    imported, lastParse, lastRepack, sample >>

\* The play button.
TogglePlay ==
    /\ Idle
    /\ pending.page = "part_000" => animationData # Null
    /\ pending' = [pending EXCEPT !.isPlaying = ~@]
    /\ UNCHANGED << variant, parser, animationData, controlsEnabled, everParsed,
                    imported, lastParse, lastRepack, sample >>

\* The input event of the timeline slider.
TimelineInput(value) ==
    /\ Idle
    /\ pending' =
         IF pending.page = "part_000"
         THEN updateFrame([pending EXCEPT !.isPlaying = FALSE,
                                          !.currentFrame = value - 1],
                          animationData)
         ELSE [pending EXCEPT !.isPlaying = FALSE, !.currentFrame = value]
    /\ UNCHANGED << variant, parser, animationData, controlsEnabled, everParsed,
                    imported, lastParse, lastRepack, sample >>

EventsNext ==
    \/ \E buf \in LoadFiles : ChooseBaseFile(buf)
    \/ \E r \in pending.reads : BufferRead(r)
    \/ RunJob
    \/ \E gltf \in LoadGltf : ChooseGltf(gltf)
    \/ \E i \in pending.imports : GltfLoaded(i)
    \/ ClickCompile
    \/ Tick
    \/ TogglePlay
    \/ \E value \in SliderValues(pending) : TimelineInput(value)

Events == EventsInit /\ [][EventsNext]_vars

(***************************************************************************)
(* Observations the properties below are stated over.                      *)
(***************************************************************************)
Result == lastRepack.result
Out == Result.out
Arg == lastRepack.arg
Returned == lastRepack.called /\ Result.status = "ok"

\* The parser holds the state of a successful parse of lastParse.buf.
BaseLoaded == lastParse.called /\ lastParse.ok

\* The layout of the base file, read from its bytes.
FirstSignature(buf) ==
    CHOOSE i \in 0..(Len(buf) - 8) :
        HasMagicAt(buf, i) /\ \A j \in 0..(i - 1) : ~HasMagicAt(buf, j)
BaseStart == FirstSignature(lastParse.buf)
BaseArrayCount == getInt16(lastParse.buf, BaseStart + 8)
BaseFramesAt == BaseStart + 8 + 2 + 8 * BaseArrayCount
BaseFrames == getInt32(lastParse.buf, BaseFramesAt)
BaseBones == getInt32(lastParse.buf, BaseFramesAt + 4)
BaseIds ==
    [i \in 1..Max(BaseBones, 0) |->
        getInt16(lastParse.buf, BaseFramesAt + 8 + 2 * (i - 1))]
BaseHeaderEnd == BaseFramesAt + 8 + 2 * Max(BaseBones, 0)
BaseBodyEnd == BaseHeaderEnd + BaseFrames * BaseBones * 12
BaseTrailing == SliceFrom(lastParse.buf, BaseBodyEnd)

\* Where repack's output holds the record of (frame f, bone slot b), and
\* where its body ends, for the base file's bone count.
SlotAt(f, b) == BaseHeaderEnd + ((f - 1) * BaseBones + (b - 1)) * 12
BodyEnd == BaseHeaderEnd + Arg.framesCount * BaseBones * 12
RecordAt(f, b) == SubSeq(Out, SlotAt(f, b) + 1, SlotAt(f, b) + 12)

(***************************************************************************)
(* C1: repack of the unmodified result of parse(buf) returns buf byte for  *)
(* byte, for every buffer parse accepts.                                   *)
(***************************************************************************)
C1_RoundTrip ==
    (/\ variant = "main" /\ BaseLoaded /\ BaseFrames >= 0 /\ BaseBones >= 0
     /\ lastRepack.called /\ Arg = lastParse.data)
        => (Result.status = "ok" /\ Out = lastParse.buf)

(***************************************************************************)
(* C2: after a base file with N frames and L trailing bytes was parsed and *)
(* a GLTF import raised framesCount to M > N, the compiled buffer ends     *)
(* with exactly ceil(M / N) copies of the original trailing bytes.         *)
(***************************************************************************)
C2_FooterCopies ==
    (/\ variant = "main" /\ BaseLoaded /\ imported
     /\ lastRepack.called /\ lastRepack.by = "btnCompile"
     /\ BaseFrames >= 1 /\ BaseBones >= 1 /\ Arg.framesCount > BaseFrames)
        => /\ Result.status = "ok"
           /\ SliceFrom(Out, BodyEnd)
                = Repeat(BaseTrailing, CeilDiv(Arg.framesCount, BaseFrames))

(***************************************************************************)
(* C3: for every frame f and every id of the base file's boneIds that has  *)
(* no entry in animationData.frames[f].bones, repack does not fail and     *)
(* writes into that slot exactly the 12 bytes encoding position (0,0,0)    *)
(* and rotation (0,0,0,1).  As amended: those bytes decode to the position *)
(* (0,0,0) exactly and to a rotation within half a quantisation step of    *)
(* (0,0,0,1) in every component.                                           *)
(***************************************************************************)
IdentityBytes == << 0, 0, 0, 0, 0, 0, 0, 112, 0, 32, 0, 64 >>

MissingSlots ==
    { fb \in (1..Max(Arg.framesCount, 0)) \X (1..Max(BaseBones, 0)) :
        \A i \in 1..Len(Arg.frames[fb[1]].bones) :
            Arg.frames[fb[1]].bones[i].boneId # BaseIds[fb[2]] }

C3_Case ==
    /\ variant = "main" /\ BaseLoaded /\ lastRepack.called /\ Arg # Null
    /\ MissingSlots # {}

NearIdentity(rotation) ==
    /\ \A i \in 1..3 : rotation[i].sq <= 1
    /\ rotation[4].sq >= One - 3 /\ ~IsNegative(rotation[4])

C3_MissingBoneIdentity ==
    C3_Case =>
        /\ Result.status = "ok"
        /\ \A fb \in MissingSlots :
              LET decoded == DecodeRecord(Out, SlotAt(fb[1], fb[2]), BaseIds[fb[2]])
              IN  /\ RecordAt(fb[1], fb[2]) = IdentityBytes
                  /\ RecordAt(fb[1], fb[2]) = EncodeRecord(IdentityPose)
                  /\ decoded.position = << F32Zero, F32Zero, F32Zero >>
                  /\ NearIdentity(decoded.rotation)

\* A repack that met a frame lacking one bone of a two-bone base file.
C3_Witness ==
    /\ C3_Case /\ Returned /\ BaseBones > 1
    /\ \E f \in 1..Arg.framesCount : Len(Arg.frames[f].bones) = BaseBones - 1

\* The claim as written: the bytes decode to the identity pose itself.
C3_DecodesToIdentity ==
    C3_Case =>
        /\ Result.status = "ok"
        /\ \A fb \in MissingSlots :
              LET decoded == DecodeRecord(Out, SlotAt(fb[1], fb[2]), BaseIds[fb[2]])
              IN  /\ RecordAt(fb[1], fb[2]) = EncodeRecord(IdentityPose)
                  /\ decoded.position = IdentityPose.position
                  /\ decoded.rotation = IdentityPose.rotation

(***************************************************************************)
(* C4: as long as no parse call has completed successfully on the parser,  *)
(* repack fails with the missing-base error and returns no buffer.  Stated *)
(* through what the claim implies: such a repack returns no buffer.        *)
(***************************************************************************)
C4_NoBufferWithoutBase ==
    (variant = "main" /\ ~everParsed /\ lastRepack.called)
        => (Result.status # "ok" /\ Out = <<>>)

(***************************************************************************)
(* C5: the bytes [0, headerEnd) of repack's output equal the base file's,  *)
(* except the 4 bytes at headerStart + 10 + 8 * arrayCount, which hold     *)
(* animationData.framesCount; the first frame record starts at headerEnd.  *)
(***************************************************************************)
FrameCountField == BaseFramesAt..(BaseFramesAt + 3)

C5_HeaderPreserved ==
    (variant \in {"main", "scan"} /\ BaseLoaded /\ Returned
     /\ BaseFrames >= 0 /\ BaseBones >= 0)
        => /\ Len(Out) >= BaseHeaderEnd
           /\ \A i \in 0..(BaseHeaderEnd - 1) :
                 i \notin FrameCountField => Out[i + 1] = lastParse.buf[i + 1]
           /\ Slice(Out, BaseFramesAt, BaseFramesAt + 4) = Int32Bytes(Arg.framesCount)
           /\ (Arg.framesCount >= 1 /\ BaseBones >= 1) =>
                 /\ Len(Out) >= BaseHeaderEnd + 12
                 /\ RecordAt(1, 1)
                      = EncodeSlot(LookupSlot(Arg.frames[1].bones, BaseIds, 1),
                                   variant = "scan")

(***************************************************************************)
(* C6: repack writes, for every frame, as many records as the base file's  *)
(* bonesCount, in the order of the base file's bone-id table, and leaves   *)
(* the header's bonesCount and bone-id table equal to the base file's,     *)
(* whatever bonesCount and boneIds the AnimationData carries.              *)
(***************************************************************************)
C6_BaseSkeleton ==
    (variant \in {"main", "legacy"} /\ BaseLoaded /\ Returned
     /\ Arg.framesCount >= 0 /\ BaseFrames >= 0 /\ BaseBones >= 1)
        => /\ Result.footerAt = BodyEnd
           /\ Len(Out) >= BodyEnd
           /\ \A f \in 1..Arg.framesCount : \A b \in 1..BaseBones :
                 RecordAt(f, b)
                   = EncodeRecord(LookupSlot(Arg.frames[f].bones, BaseIds, b))
           /\ Slice(Out, BaseFramesAt + 4, BaseHeaderEnd)
                = Slice(lastParse.buf, BaseFramesAt + 4, BaseHeaderEnd)

(***************************************************************************)
(* C7: the length of repack's output is headerStart + (headerEnd -         *)
(* headerStart) + framesCount * (base bonesCount * 12) + footer length     *)
(* for every framesCount >= 0, the footer lies at the body loop's final    *)
(* write position, and for a parsed base file that position is the end of  *)
(* the body and the footer ends the output.                                *)
(***************************************************************************)
C7_Case == variant = "main" /\ Returned /\ Arg.framesCount >= 0

C7_OutputLength ==
    C7_Case =>
        /\ Len(Out) = parser.headerStart + (parser.headerEnd - parser.headerStart)
                      + Arg.framesCount * (parser.bonesCount * 12)
                      + Len(Result.footer)
        /\ Slice(Out, Result.footerAt, Result.footerAt + Len(Result.footer))
             = Result.footer
        /\ BaseLoaded =>
              /\ Result.footerAt = BodyEnd
              /\ Result.footerAt + Len(Result.footer) = Len(Out)

\* A compile after an import that lengthened a base file with a prefix and
\* trailing data.
C7_Witness ==
    /\ C7_Case /\ BaseLoaded /\ imported
    /\ BaseStart > 0 /\ BaseBones > 1
    /\ Arg.framesCount > BaseFrames /\ Len(Result.footer) > 0

(***************************************************************************)
(* C8: when the AnimationData given to repack has trailingData, those      *)
(* bytes are the footer; when trailingData is absent (null, undefined or   *)
(* of zero length) the output has no bytes after the last frame record.    *)
(* As amended: when trailingData is absent the footer is the bytes that    *)
(* follow the animation body in the base file, so the footer is empty      *)
(* only when the base file has no such bytes.                              *)
(***************************************************************************)
C8_Case ==
    variant = "main" /\ BaseLoaded /\ Returned /\ Arg.framesCount >= 0

AfterBody == SliceFrom(Out, BodyEnd)

C8_FooterChoice ==
    C8_Case =>
        /\ Len(Out) >= BodyEnd
        /\ HasTrailingData(Arg) => AfterBody = Arg.trailingData
        /\ ~HasTrailingData(Arg) => AfterBody = BaseTrailing

\* A repack without trailingData over a base file that has trailing bytes,
\* after an import changed the number of frames.
C8_Witness ==
    /\ C8_Case /\ ~HasTrailingData(Arg) /\ Len(BaseTrailing) > 0
    /\ imported /\ Arg.framesCount > BaseFrames /\ BaseBones > 0
    /\ BaseFrames > 0

\* The claim as written.
C8_AbsentMeansEmpty ==
    C8_Case =>
        /\ Len(Out) >= BodyEnd
        /\ HasTrailingData(Arg) => AfterBody = Arg.trailingData
        /\ ~HasTrailingData(Arg) => AfterBody = <<>>

(***************************************************************************)
(* C9: for content C that begins with the signature and a prefix P of p    *)
(* bytes, parse(P ++ C) succeeds exactly when parse(C) succeeds and        *)
(* returns the same framesCount, bonesCount, boneIds, frames and           *)
(* trailingData, with headerStart = p.  Stated for the last parsed buffer  *)
(* split at its first signature, so that P holds no signature of its own.  *)
(***************************************************************************)
SameAsContent(p) ==
    LET content == parse(NewParser, SliceFrom(lastParse.buf, p))
    IN  /\ lastParse.ok = content.ok
        /\ content.ok =>
              /\ lastParse.data = content.data
              /\ parser.headerStart = p

C9_PrefixIndependent ==
    (variant = "main" /\ lastParse.called) =>
        \A p \in 0..(Len(lastParse.buf) - 8) :
            (/\ HasMagicAt(lastParse.buf, p)
             /\ \A q \in 0..(p - 1) : ~HasMagicAt(lastParse.buf, q))
            => SameAsContent(p)

(***************************************************************************)
(* C10: every successful parse returns frames with length equal to the     *)
(* returned framesCount and boneIds with length equal to the returned      *)
(* bonesCount, each frame holding exactly bonesCount entries whose i-th    *)
(* entry has boneId = boneIds[i].                                          *)
(***************************************************************************)
C10_ParseShape ==
    (variant = "main" /\ lastParse.called /\ lastParse.ok) =>
        LET data == lastParse.data
        IN  /\ Len(data.frames) = data.framesCount
            /\ Len(data.boneIds) = data.bonesCount
            /\ \A f \in 1..Len(data.frames) :
                  /\ Len(data.frames[f].bones) = data.bonesCount
                  /\ \A i \in 1..Len(data.frames[f].bones) :
                        data.frames[f].bones[i].boneId = data.boneIds[i]

(***************************************************************************)
(* C11: after every successful parse the retained offsets satisfy          *)
(* 0 <= headerStart <= headerEnd <= animationDataEnd <= byteLength, for    *)
(* every accepted input, zero or negative header fields included.          *)
(***************************************************************************)
C11_OffsetsOrdered ==
    (variant = "main" /\ lastParse.called /\ lastParse.ok) =>
        /\ 0 <= parser.headerStart
        /\ parser.headerStart <= parser.headerEnd
        /\ parser.headerEnd <= parser.animationDataEnd
        /\ parser.animationDataEnd <= Len(lastParse.buf)

(***************************************************************************)
(* C12: parse of a buffer in which the signature occurs at no offset fails *)
(* with the signature-not-found error, an error distinct from the one of a *)
(* truncated file, and returns no AnimationData; empty buffers and buffers *)
(* shorter than 8 bytes included.                                          *)
(***************************************************************************)
NoSignature(buf) == \A i \in 0..(Len(buf) - 8) : ~HasMagicAt(buf, i)

C12_SignatureNotFound ==
    (variant = "main" /\ lastParse.called /\ NoSignature(lastParse.buf)) =>
        /\ ~lastParse.ok
        /\ lastParse.data = Null
        /\ lastParse.error = "Invalid file signature"

(***************************************************************************)
(* C13: parse fails and returns no AnimationData whenever a header field,  *)
(* a bone id or a frame record it has to read lies partly or wholly beyond *)
(* the end of the buffer, in particular whenever byteLength < headerEnd +  *)
(* framesCount * bonesCount * 12 for positive counts.                      *)
(***************************************************************************)
Beyond(buf, off, n) == off + n > Len(buf)

\* The reads of parse in their order, for the first signature of buf: the
\* arrayCount, the two counts, the bone ids, the frame records.
CountsBeyond(buf, framesAt) ==
    \/ Beyond(buf, framesAt, 8)
    \/ /\ getInt32(buf, framesAt + 4) > 0
       /\ Beyond(buf, framesAt + 8, 2 * getInt32(buf, framesAt + 4))
    \/ /\ getInt32(buf, framesAt) > 0
       /\ getInt32(buf, framesAt + 4) > 0
       /\ Beyond(buf, framesAt + 8 + 2 * getInt32(buf, framesAt + 4),
                 getInt32(buf, framesAt) * getInt32(buf, framesAt + 4) * 12)

HeaderBeyond(buf, start) ==
    \/ Beyond(buf, start + 8, 2)
    \/ /\ start + 10 + 8 * getInt16(buf, start + 8) >= 0
       /\ CountsBeyond(buf, start + 10 + 8 * getInt16(buf, start + 8))

Truncated(buf) == ~NoSignature(buf) /\ HeaderBeyond(buf, FirstSignature(buf))

C13_Case == sample.fn = "parse" /\ sample.done /\ Truncated(sample.arg)

C13_TruncatedFails ==
    C13_Case => (~sample.result.ok /\ sample.result.data = Null)

\* A buffer cut inside its last frame record has been offered to parse.
C13_Witness ==
    /\ C13_Case
    /\ sample.arg = SubSeq(CutFile, 1, Len(CutFile) - MaxTrail - 1)

(***************************************************************************)
(* C14: parse and repack fail atomically: a parse that fails returns no    *)
(* data and leaves the retained decode state (originalFileBuffer,          *)
(* headerStart, headerEnd, animationDataEnd, boneIds, bonesCount,          *)
(* frameSize, origFramesCount) as it was before the call, and no repack,   *)
(* failed or not, changes it.                                              *)
(***************************************************************************)
Retained(p) ==
    << p.originalFileBuffer, p.headerStart, p.headerEnd, p.animationDataEnd,
       p.boneIds, p.bonesCount, p.frameSize, p.origFramesCount >>

C14_FailsAtomically ==
    [][ /\ (variant = "main" /\ lastParse'.called /\ ~lastParse'.ok) =>
              (lastParse'.data = Null /\ Retained(parser') = Retained(parser))
        /\ (variant = "main" /\ lastRepack'.called) =>
              Retained(parser') = Retained(parser) ]_vars

C16_Case == sample.fn = "share" /\ sample.done /\ lastParse.ok

C16_NoSharedState ==
    C16_Case =>
        \E a \in {parse(NewParser, sample.arg[1]).parser} :
            /\ Result.status = "ok"
            /\ Slice(Out, 0, a.headerEnd) = Slice(sample.arg[1], 0, a.headerEnd)
            /\ SliceFrom(Out, a.animationDataEnd)
                 = SliceFrom(sample.arg[1], a.animationDataEnd)

(***************************************************************************)
(* C17: for a unit quaternion q, parseCompressedQuaternion of the words of *)
(* compressQuaternion(q) is a unit quaternion again (normalising it        *)
(* changes nothing) and each of its components, in the place it had in q,  *)
(* differs from that of q by less than 2e-4: the identity, axis rotations  *)
(* and ties for the largest magnitude included.  2e-4 is 9.26 half steps;  *)
(* the signed integer parts of two values less than 2e-4 apart in the      *)
(* cases below differ by at most 8, which puts the values themselves less  *)
(* than 9 half steps apart.                                                *)
(***************************************************************************)
RECURSIVE RootBetween(_, _, _)
RootBetween(lo, hi, sq) ==
    IF hi - lo <= 1 THEN lo
    ELSE LET mid == (lo + hi) \div 2
         IN  IF mid * mid <= sq THEN RootBetween(mid, hi, sq)
             ELSE RootBetween(lo, mid, sq)
\* The integer part of a component, in half steps, with its sign.
HalfSteps(x) ==
    LET r == RootBetween(0, 2 * RootMax, x.sq) IN IF x.neg THEN 0 - r ELSE r
Apart(x, y) ==
    LET d == HalfSteps(x) - HalfSteps(y) IN IF d < 0 THEN 0 - d ELSE d
SquareSum(q) == q[1].sq + q[2].sq + q[3].sq + q[4].sq

C17_Case == sample.fn = "quat" /\ sample.done /\ SquareSum(sample.arg) = One

C17_QuaternionRoundTrip ==
    C17_Case =>
        /\ SquareSum(sample.result.rotation) = One
        /\ \A k \in 1..4 :
              Apart(sample.result.rotation[k], sample.arg[k]) <= 8

C17_Witness ==
    /\ C17_Case
    /\ sample.arg = << Real(TRUE, QuantMax * QuantMax), RZero, RZero,
                       Real(FALSE, QuantMax * QuantMax) >>
    /\ sample.result.words[1] \div 8192 = 4

(***************************************************************************)
(* C18: for every sign bit, index of the omitted component and 15-bit      *)
(* aBits, bBits, cBits, the words compressQuaternion assembles lie in      *)
(* 0..0xFFFF; v0 holds the sign in bit 15, the index in bits 14-13 and the *)
(* top 13 bits of aBits; v1 the low 2 bits of aBits and the top 14 bits of *)
(* bBits; v2 the low bit of bBits and cBits; and the field extraction of   *)
(* parseCompressedQuaternion gives back the five fields.                   *)
(***************************************************************************)
C18_Case == sample.fn = "pack" /\ sample.done

C18_BitLayout ==
    C18_Case =>
        LET f == sample.arg
            v == sample.result.words
        IN  /\ \A k \in 1..3 : v[k] \in 0..65535
            /\ v[1] \div 32768 = f.signBit
            /\ (v[1] \div 8192) % 4 = f.maxIdx
            /\ v[1] % 8192 = f.aBits \div 4
            /\ v[2] \div 16384 = f.aBits % 4
            /\ v[2] % 16384 = f.bBits \div 2
            /\ v[3] \div 32768 = f.bBits % 2
            /\ v[3] % 32768 = f.cBits
            /\ sample.result.fields = f

C18_Witness ==
    /\ C18_Case
    /\ sample.arg = [signBit |-> 1, maxIdx |-> 3, aBits |-> QuantMax,
                     bBits |-> 21845, cBits |-> 1]
    /\ sample.result.words = << 65535, 60074, 32769 >>

(***************************************************************************)
(* C19: halfToFloat(float32ToFloat16(x)) is x itself for 0, -0 (with its   *)
(* sign), 1, -1, 65504 and the two infinities, is NaN for a NaN, and is    *)
(* zero for every number x of magnitude below 2^-24, the smallest binary16 *)
(* subnormal.                                                              *)
(***************************************************************************)
C19_Case == sample.fn = "half" /\ sample.done

IsNaN(x) == x.e = 255 /\ x.m # 0
\* |x| < 2^-24: the binary32 exponent field of 2^-24 is 103.
BelowSmallest(x) == x.e < 103

C19_HalfRoundTrip ==
    C19_Case =>
        /\ sample.arg \in ExactSamples =>
              sample.result = F32(sample.arg.s, sample.arg.e, sample.arg.m)
        /\ IsNaN(sample.arg) => IsNaN(sample.result)
        /\ BelowSmallest(sample.arg) =>
              (sample.result.e = 0 /\ sample.result.m = 0)

(***************************************************************************)
(* C20: after any sequence of GLTF imports that follows a successful parse *)
(* of a base file with N frames and L trailing bytes, the trailing data    *)
(* the app's AnimationData carries, and the footer repack appends, have    *)
(* length L * ceil(M / N) when the current framesCount M exceeds N and     *)
(* length L otherwise: the factor is taken against the base file's N and   *)
(* L whatever earlier imports left.                                        *)
(***************************************************************************)
C20_Case == sample.fn = "imports" /\ BaseLoaded /\ imported

ExpectedTrailing(M) ==
    IF M > BaseFrames THEN Len(BaseTrailing) * CeilDiv(M, BaseFrames)
    ELSE Len(BaseTrailing)

C20_TrailingLength ==
    C20_Case =>
        /\ Len(animationData.trailingData)
             = ExpectedTrailing(animationData.framesCount)
        /\ sample.done =>
              /\ Result.status = "ok"
              /\ Len(SliceFrom(Out, BodyEnd)) = ExpectedTrailing(Arg.framesCount)

(***************************************************************************)
(* C21: repack looks bone entries up by id, not by position: when the ids  *)
(* inside each frame are pairwise distinct, reordering the entries of the  *)
(* frames leaves repack's result unchanged, and the record at slot b of    *)
(* frame f is that of the entry whose boneId is the base file's            *)
(* boneIds[b].                                                             *)
(***************************************************************************)
DistinctIds(bones) ==
    \A i, j \in 1..Len(bones) : bones[i].boneId = bones[j].boneId => i = j

C21_Case ==
    /\ variant = "main" /\ BaseLoaded
    /\ lastRepack.called /\ lastRepack.edit = "reverseBones"
    /\ \A f \in 1..Len(Arg.frames) : DistinctIds(Arg.frames[f].bones)

C21_LookupById ==
    C21_Case =>
        /\ Result = repack(parser, animationData)
        /\ Returned =>
              \A f \in 1..Arg.framesCount : \A b \in 1..BaseBones :
                  \A i \in 1..Len(Arg.frames[f].bones) :
                      Arg.frames[f].bones[i].boneId = BaseIds[b] =>
                          RecordAt(f, b) = EncodeRecord(Arg.frames[f].bones[i])

C21_Witness ==
    /\ C21_Case /\ Returned /\ BaseBones = 2 /\ Arg.framesCount >= 1
    /\ Len(Arg.frames[1].bones) = 2
    /\ Arg.frames[1].bones[1].boneId = BaseIds[2]
    /\ Arg.frames[1].bones[2].boneId = BaseIds[1]
    /\ RecordAt(1, 1) # RecordAt(1, 2)

(***************************************************************************)
(* C22: the header locator sets headerStart to the smallest offset i,      *)
(* 0 <= i <= byteLength - 8, at which the 8 bytes are the signature,       *)
(* wherever that offset lies (i = byteLength - 8 and offsets of 1024 or    *)
(* more included), and reports not-found only when there is none.          *)
(***************************************************************************)
C22_Case == sample.fn = "locate" /\ sample.done

C22_FirstSignature ==
    C22_Case =>
        sample.result.at = IF NoSignature(sample.arg.buf) THEN -1
                           ELSE FirstSignature(sample.arg.buf)

(***************************************************************************)
(* C23: the record of frame f and bone slot b is read by parse and written *)
(* by repack at exactly the 12 bytes starting at                           *)
(* (start of frame data) + (f * bonesCount + b) * 12, as six little-endian *)
(* 16-bit fields px, py, pz, v0, v1, v2 at record offsets 0, 2, 4, 6, 8,   *)
(* 10; repack overwrites no field of another record and writes nothing     *)
(* outside its output buffer (it returns a buffer of exactly that layout). *)
(***************************************************************************)
C23_Case == sample.fn = "layout" /\ sample.done /\ sample.result.parsed.ok

\* Where the frame data starts: in the file parsed, and in the output of
\* either repack.
FrameDataIn(buf) == FirstSignature(buf) + 8 + 2
                    + 8 * getInt16(buf, FirstSignature(buf) + 8) + 4 + 4
                    + 2 * getInt32(buf, FirstSignature(buf) + 8 + 2
                          + 8 * getInt16(buf, FirstSignature(buf) + 8) + 4)
FrameDataOut(repacker, buf, bones) ==
    IF repacker = "synth" THEN 8 + 2 + 4 + 4 + 2 * bones ELSE FrameDataIn(buf)

\* The k-th 16-bit field of the 12 bytes at off, little-endian.
FieldAt(buf, off, k) == buf[off + 2 * k + 1] + 256 * buf[off + 2 * k + 2]

RecordFields(boneData) ==
    << float32ToFloat16(boneData.position[1]),
       float32ToFloat16(boneData.position[2]),
       float32ToFloat16(boneData.position[3]) >>
    \o compressQuaternion(boneData.rotation[1], boneData.rotation[2],
                          boneData.rotation[3], boneData.rotation[4])

C23_ReadAt(buf, data) ==
    \A f \in 1..data.framesCount : \A b \in 1..data.bonesCount :
        \E off \in {FrameDataIn(buf) + ((f - 1) * data.bonesCount + (b - 1)) * 12} :
            /\ data.frames[f].bones[b].position
                 = << halfToFloat(FieldAt(buf, off, 0)),
                      halfToFloat(FieldAt(buf, off, 1)),
                      halfToFloat(FieldAt(buf, off, 2)) >>
            /\ data.frames[f].bones[b].rotation
                 = parseCompressedQuaternion(FieldAt(buf, off, 3),
                       FieldAt(buf, off, 4), FieldAt(buf, off, 5))

C23_WrittenAt(start, data, repacked) ==
    /\ repacked.status = "ok"
    /\ Len(repacked.out) >= start + data.framesCount * data.bonesCount * 12
    /\ \A f \in 1..data.framesCount : \A b \in 1..data.bonesCount :
        \E fields \in {RecordFields(data.frames[f].bones[b])} :
            \A k \in 0..5 :
                FieldAt(repacked.out,
                        start + ((f - 1) * data.bonesCount + (b - 1)) * 12, k)
                  = fields[k + 1]

C23_RecordLayout ==
    C23_Case =>
        /\ C23_ReadAt(sample.arg.buf, sample.result.parsed.data)
        /\ C23_WrittenAt(FrameDataOut(sample.arg.repacker, sample.arg.buf,
                                      sample.result.parsed.data.bonesCount),
                         sample.result.parsed.data, sample.result.repacked)

(***************************************************************************)
(* C24: compressQuaternion stores in bits 14-13 of v0 the index of a       *)
(* component of largest absolute value of the normalized input (the lowest *)
(* such index when several tie) and in bit 15 the value 1 exactly when     *)
(* that component is negative; the three remaining components are          *)
(* quantized as a, b, c in their original relative order (each 15-bit      *)
(* field decodes to within 2 half steps of its component), and             *)
(* parseCompressedQuaternion puts the reconstructed component at that same *)
(* index, the decoded a, b, c around it in order.                          *)
(***************************************************************************)
C24_Case == sample.fn = "quat" /\ sample.done /\ SquareSum(sample.arg) = One

\* q without its i-th component.
Without(q, i) == [k \in 1..3 |-> IF k < i THEN q[k] ELSE q[k + 1]]

\* The value a 15-bit field stands for, in half steps.
FieldValue(raw) == Real(2 * raw < QuantMax, (2 * raw - QuantMax) * (2 * raw - QuantMax))

StoredFields(v) ==
    << FieldValue((v[2] \div 16384) + 4 * (v[1] % 8192)),
       FieldValue((v[3] \div 32768) + 2 * (v[2] % 16384)),
       FieldValue(v[3] % 32768) >>

C24_Omitted(q, v, i, rotation) ==
    /\ \A j \in 1..4 : q[j].sq <= q[i].sq
    /\ \A j \in 1..(i - 1) : q[j].sq < q[i].sq
    /\ (v[1] \div 32768 = 1) <=> (q[i].neg /\ q[i].sq > 0)
    /\ \A k \in 1..3 : Apart(StoredFields(v)[k], Without(q, i)[k]) <= 2
    /\ Without(rotation, i) = StoredFields(v)
    /\ rotation[i].neg = (v[1] \div 32768 = 1)
    /\ rotation[i].sq = Max(0, One - (Without(rotation, i)[1].sq
                                      + Without(rotation, i)[2].sq
                                      + Without(rotation, i)[3].sq))

C24_LargestOmitted ==
    C24_Case =>
        C24_Omitted(sample.arg, sample.result.words,
                    ((sample.result.words[1] \div 8192) % 4) + 1,
                    sample.result.rotation)

C24_Witness ==
    /\ C24_Case
    /\ sample.arg = << Real(FALSE, QuantMax * QuantMax), RZero, RZero,
                       Real(TRUE, QuantMax * QuantMax) >>
    /\ sample.result.words[1] \div 8192 = 0
    /\ ~sample.result.rotation[1].neg
    /\ sample.result.rotation[4].neg

(***************************************************************************)
(* C25: for every finite binary32 input whose magnitude lies in the        *)
(* binary16 normal range, float32ToFloat16 returns the binary16 pattern    *)
(* nearest to the input (round-to-nearest on the 13 discarded mantissa     *)
(* bits: the pattern below when they are less than half a unit, the one    *)
(* above when they are more, either at exactly half), and for every finite *)
(* input too large for binary16 it returns the pattern of the infinity     *)
(* with the input's sign.                                                  *)
(***************************************************************************)
C25_Case == sample.fn = "encode" /\ sample.done

\* The binary16 pattern of the same sign at or below the magnitude of x.
PatternBelow(x) == x.s * 32768 + (x.e - 112) * 1024 + (x.m \div 8192)
HalfInfinity(s) == s * 32768 + 31744

\* Magnitudes up to the largest binary16 value, 65504.
InNormalRange(x) ==
    /\ x.e >= 113
    /\ x.e < 142 \/ (x.e = 142 /\ x.m <= 1023 * 8192)
\* Magnitudes of 65536 or more.
TooLarge(x) == x.e > 142 /\ x.e < 255

C25_Nearest(x, h) ==
    /\ InNormalRange(x) =>
          /\ x.m % 8192 < 4096 => h = PatternBelow(x)
          /\ x.m % 8192 > 4096 => h = PatternBelow(x) + 1
          /\ x.m % 8192 = 4096 => h \in {PatternBelow(x), PatternBelow(x) + 1}
    /\ TooLarge(x) => h = HalfInfinity(x.s)

C25_RoundToNearest == C25_Case => C25_Nearest(sample.arg, sample.result)

(***************************************************************************)
(* C26: for every 16-bit pattern h (zeros, subnormals, normals, infinities *)
(* and NaN patterns of either sign), float32ToFloat16(halfToFloat(h)) = h. *)
(***************************************************************************)
C26_Case == sample.fn = "reencode" /\ sample.done

C26_PatternRoundTrip == C26_Case => sample.result = sample.arg

(***************************************************************************)
(* C27: in the viewer app, in every reachable state in which the Compile   *)
(* action can run repack (animationData is non-null, the compile control   *)
(* is enabled and a click can be delivered), the parser's retained state   *)
(* and app.animationData both derive from the same successfully parsed     *)
(* base file: the parser holds what parse of that file retains, and the    *)
(* AnimationData has that file's skeleton and trailing data, with the      *)
(* file's frames or those of a GLTF import.  This holds under any          *)
(* interleaving of base-file loads (successful or failing), GLTF imports   *)
(* and compile clicks, with reads settling in any order.                   *)
(***************************************************************************)
C27_CanCompile == Idle /\ controlsEnabled /\ animationData # Null

ImportedFrames(data) ==
    \E gltf \in LoadGltf :
        \E r \in {importGLTF(gltf, data)} :
            r.ok /\ data.frames = r.data.frames
                 /\ data.framesCount = r.data.framesCount

DerivedFrom(parsed) ==
    /\ parsed.ok
    /\ parser = parsed.parser
    /\ animationData.bonesCount = parsed.data.bonesCount
    /\ animationData.boneIds = parsed.data.boneIds
    /\ animationData.trailingData = parsed.data.trailingData
    /\ \/ /\ animationData.frames = parsed.data.frames
          /\ animationData.framesCount = parsed.data.framesCount
       \/ ImportedFrames(animationData)

C27_SameBaseFile ==
    C27_CanCompile =>
        \E buf \in LoadFiles : DerivedFrom(parse(NewParser, buf))

\* Compile has run on one base file, and the app now holds another one with
\* the frames of a GLTF import.
C27_Witness ==
    /\ C27_CanCompile
    /\ lastRepack.called
    /\ lastRepack.arg.bonesCount # animationData.bonesCount
    /\ ImportedFrames(animationData)

(***************************************************************************)
(* C30: in the viewer app, in every reachable state in which animationData *)
(* is loaded with framesCount >= 1, currentFrame is an integer with        *)
(* 0 <= currentFrame <= framesCount - 1, across any interleaving of        *)
(* playback ticks, play/pause toggles, timeline input (slider values from  *)
(* the one the page shows for frame 0 up to the slider maximum), base-file *)
(* loads and GLTF imports that change framesCount; and a step that changes *)
(* currentFrame while playback goes on over the same data advances it by   *)
(* exactly one frame, from framesCount - 1 to 0.                           *)
(***************************************************************************)
C30_Loaded == animationData # Null /\ animationData.framesCount >= 1

C30_InRange ==
    C30_Loaded => pending.currentFrame \in 0..(animationData.framesCount - 1)

\* A step of playback: playing before and after, over the same data, with
\* no part of a load or an import in it, and currentFrame changed.
C30_Playback ==
    /\ C30_Loaded
    /\ pending.isPlaying /\ pending'.isPlaying
    /\ animationData' = animationData
    /\ pending'.jobs = pending.jobs
    /\ pending'.currentFrame # pending.currentFrame

C30_CurrentFrame ==
    /\ []C30_InRange
    /\ [][C30_Playback =>
            pending'.currentFrame =
                IF pending.currentFrame = animationData.framesCount - 1 THEN 0
                ELSE pending.currentFrame + 1]_vars

\* The last frame of an imported clip is shown over a base file of fewer
\* frames, playing.
C30_Witness ==
    /\ C30_Loaded
    /\ ImportedFrames(animationData)
    /\ pending.currentFrame = animationData.framesCount - 1
    /\ pending.currentFrame > MaxFrames - 1
    /\ pending.isPlaying

(***************************************************************************)
(* C28: when repack succeeds for AnimationData with framesCount >= 0, its  *)
(* output is a self-consistent file: parsing the output succeeds, finds    *)
(* the signature at the same headerStart, and returns framesCount equal to *)
(* the framesCount passed to repack, the base file's bonesCount and        *)
(* boneIds, and exactly the footer bytes repack appended as trailingData.  *)
(***************************************************************************)
C28_Case ==
    /\ variant \in {"main", "scan"}
    /\ BaseLoaded
    /\ Returned
    /\ Arg.framesCount >= 0

\* Where a parser keeps the offset of the signature, and the trailing data
\* of an AnimationData (none in the scan-limited parser, whose repack
\* appends no footer).
HeaderStartOf(p) ==
    IF "headerStart" \in DOMAIN p THEN p.headerStart
    ELSE p.headerOffsetInfo.start
TrailingOf(data) ==
    IF "trailingData" \in DOMAIN data THEN data.trailingData ELSE <<>>

Reparsed(again) ==
    /\ again.ok
    /\ HeaderStartOf(again.parser) = HeaderStartOf(parser)
    /\ again.data.framesCount = Arg.framesCount
    /\ again.data.bonesCount = BaseBones
    /\ again.data.boneIds = BaseIds
    /\ TrailingOf(again.data) = Result.footer

C28_SelfConsistent ==
    C28_Case => Reparsed(Parse(variant, NewParserOf(variant), Out))

(***************************************************************************)
(* GLTFHandler.importGLTF as a process: the promise executor hands the     *)
(* buffer to the loader, the loader calls one of the two callbacks, and    *)
(* the load callback runs to a resolve, a reject or its chunk loop, one    *)
(* push per step.                                                          *)
(***************************************************************************)
\* The value of Math.ceil(importedFrames / originalFrames), or none.
Count(n) == [computed |-> TRUE, finite |-> TRUE, n |-> n]
Infinity == [computed |-> TRUE, finite |-> FALSE, n |-> 0]
NoCount == [computed |-> FALSE, finite |-> TRUE, n |-> 0]

\* Math.ceil(a / b) for a >= 1 and any integer b.
CeilRatio(a, b) ==
    IF b = 0 THEN Infinity
    ELSE IF b > 0 THEN Count(CeilDiv(a, b))
    ELSE Count(0 - (a \div (0 - b)))

\* "count > 1"
ExceedsOne(count) == ~count.finite \/ count.n > 1

\* The longest array the engine builds before push throws a RangeError.
ArrayLimit == MaxImportFrames + 1

\* Original animations a caller passes: none, or an AnimationData with or
\* without the buffer it was parsed from.
OriginalFrames == {0 - 1, 0, 1, 2}
OriginalTrailing == {NullBuffer, <<>>, << 161 >>, << 161, 162 >>}
Originals ==
    {Null}
    \cup [framesCount : OriginalFrames, trailingData : OriginalTrailing,
          originalFileBuffer : {NullBuffer, Empty}]

SettleGltf ==
    { [kind |-> k, ticks |-> 0, bones |-> <<>>, pose |-> 1] :
        k \in {"error", "noAnimations", "noBones"} }
    \cup { Clip(t) : t \in {0, 1, 2, MaxImportFrames} }

\* The call in flight: where the code stands, the repetition count it
\* computed, the chunks pushed so far, the calls of resolve and of reject,
\* and the value resolve was called with.
Loading ==
    [pc |-> "loader", count |-> NoCount, chunks |-> 0, resolves |-> 0,
     rejects |-> 0, value |-> Null]

SettleSamples ==
    { [Sample("importGLTF", s) EXCEPT !.result = Loading] :
        s \in [importer : Importers, gltf : SettleGltf, original : Originals] }

SettleInit ==
    /\ variant = "main"
    /\ parser = NewParser
    /\ animationData = Null
    /\ controlsEnabled = FALSE
    /\ everParsed = FALSE
    /\ imported = FALSE
    /\ lastParse = NoParse
    /\ lastRepack = NoRepack
    /\ sample \in SettleSamples
    /\ pending = NoPending

Rejected(call) == [call EXCEPT !.pc = "returned", !.rejects = @ + 1]
Resolved(call, value) ==
    [call EXCEPT !.pc = "returned", !.resolves = @ + 1, !.value = value]

\* The count the load callback computes, if the guards let it.
CountOf(importer, totalFrames, original) ==
    IF original = Null THEN NoCount
    ELSE IF importer = "part_002"
    THEN IF original.framesCount > 0
            /\ totalFrames > original.framesCount
            /\ original.trailingData # NullBuffer
         THEN Count(CeilDiv(totalFrames, original.framesCount))
         ELSE NoCount
    ELSE IF HasOriginalFileBuffer(original)
         THEN CeilRatio(totalFrames, original.framesCount)
         ELSE NoCount

\* The chunk loop is entered.
Multiplies(importer, count, original) ==
    /\ count.computed
    /\ ExceedsOne(count)
    /\ IF importer = "part_002" THEN TRUE ELSE HasTrailingData(original)

\* (err) => reject(err)
LoaderError ==
    /\ sample.fn = "importGLTF"
    /\ sample.result.pc = "loader"
    /\ sample.arg.gltf.kind = "error"
    /\ sample' = [sample EXCEPT !.result = Rejected(@), !.done = TRUE]
    /\ UNCHANGED app

\* (gltf) => { ... } up to the first resolve or reject, or to the chunk loop.
LoaderLoaded ==
    /\ sample.fn = "importGLTF"
    /\ sample.result.pc = "loader"
    /\ sample.arg.gltf.kind # "error"
    /\ \E count \in {CountOf(sample.arg.importer, Max(1, sample.arg.gltf.ticks),
                             sample.arg.original)} :
          sample' =
            IF sample.arg.gltf.kind \in {"noAnimations", "noBones"}
            THEN [sample EXCEPT !.result = Rejected(@), !.done = TRUE]
            ELSE IF Multiplies(sample.arg.importer, count, sample.arg.original)
            THEN [sample EXCEPT !.result = [@ EXCEPT !.pc = "chunks",
                                                     !.count = count]]
            ELSE [sample EXCEPT
                    !.result = Resolved([@ EXCEPT !.count = count],
                        ImportWith(sample.arg.importer, sample.arg.gltf,
                                   sample.arg.original).data),
                    !.done = TRUE]
    /\ UNCHANGED app

\* chunks.push(originalAnimationData.trailingData)
PushChunk ==
    /\ sample.fn = "importGLTF"
    /\ sample.result.pc = "chunks"
    /\ ~sample.result.count.finite \/ sample.result.chunks < sample.result.count.n
    /\ sample.result.chunks < ArrayLimit
    /\ sample' = [sample EXCEPT !.result = [@ EXCEPT !.chunks = @ + 1]]
    /\ UNCHANGED app

\* The loop is left: the chunks are concatenated and the promise resolved.
ResolveMultiplied ==
    /\ sample.fn = "importGLTF"
    /\ sample.result.pc = "chunks"
    /\ sample.result.count.finite
    /\ sample.result.chunks = sample.result.count.n
    /\ sample' = [sample EXCEPT
                    !.result = Resolved(@,
                        ImportWith(sample.arg.importer, sample.arg.gltf,
                                   sample.arg.original).data),
                    !.done = TRUE]
    /\ UNCHANGED app

\* The loop that has no last turn: push throws at the array limit.  The
\* exception leaves the load callback; the loader, which is not part of
\* the repository, hands it to the error callback or lets it escape.
ChunksOverflow ==
    /\ sample.fn = "importGLTF"
    /\ sample.result.pc = "chunks"
    /\ ~sample.result.count.finite
    /\ sample.result.chunks = ArrayLimit
    /\ \E handed \in BOOLEAN :
          sample' = [sample EXCEPT
                       !.result = [@ EXCEPT !.pc = "thrown",
                                            !.rejects = IF handed THEN @ + 1 ELSE @]]
    /\ UNCHANGED app

SettleNext ==
    \/ LoaderError
    \/ LoaderLoaded
    \/ PushChunk
    \/ ResolveMultiplied
    \/ ChunksOverflow

\* The loader calls one of its callbacks and running code goes on running.
Settle == SettleInit /\ [][SettleNext]_vars /\ WF_vars(SettleNext)

(***************************************************************************)
(* C29: once the loader has delivered a scene or an error, importGLTF      *)
(* comes to an end having called exactly one of resolve and reject exactly *)
(* once, for every original animation passed in (one with framesCount 0    *)
(* and non-empty trailing data included), and a repetition count it        *)
(* computes is a finite integer.                                           *)
(***************************************************************************)
C29_Case == sample.fn = "importGLTF"
Settlements == sample.result.resolves + sample.result.rejects
C29_Ended == sample.result.pc \in {"returned", "thrown"}
C29_FiniteCount == sample.result.count.finite
C29_SettlesOnce ==
    /\ [](C29_Case => C29_FiniteCount /\ Settlements <= 1)
    /\ [](C29_Case /\ C29_Ended => Settlements = 1 /\ sample.result.pc = "returned")
    /\ (C29_Case ~> (C29_Ended /\ Settlements = 1))

====
